---- MODULE Spec2Model ----
(***************************************************************************)
(* Plugin dependency graph panel: graph construction from the plugin       *)
(* manifests (data.json), the cascading provider/consumer filter, the      *)
(* layout of nodes and mediating entities, and the panel's React state.    *)
(*                                                                         *)
(* Strings are modelled as sequences of tokens (a token is a run of        *)
(* characters that the code never splits): "a/x" is <<"a", "/", "x">>,     *)
(* `${c}-at-${p}` is c \o <<"-at-">> \o p.  Lengths are exact rationals,   *)
(* stored as integers in units of 1/Unit pixel.                            *)
(***************************************************************************)
EXTENDS Integers, Sequences, FiniteSets, TLC

VARIABLES pluginData, series, options, width, height, data, nodes,
          selectedExtensionPoint, selectedExposedComponent, effectPending,
          replaced, clicks

vars == <<pluginData, series, options, width, height, data, nodes,
          selectedExtensionPoint, selectedExposedComponent, effectPending,
          replaced, clicks>>

----------------------------------------------------------------------------
(* Generic helpers for JS arrays and insertion-ordered Maps                *)

Range(s) == {s[i] : i \in 1..Len(s)}

Includes(s, x) == \E i \in 1..Len(s) : s[i] = x

RECURSIVE FoldLeft(_, _, _)
FoldLeft(Op(_, _), acc, s) ==
  IF s = <<>> THEN acc ELSE FoldLeft(Op, Op(acc, Head(s)), Tail(s))

\* Array.prototype.map
MapSeq(Op(_), s) == [i \in 1..Len(s) |-> Op(s[i])]

\* Array.prototype.filter
FilterSeq(s, Test(_)) == SelectSeq(s, Test)

\* new Set(array) / Array.from(set): first occurrences, in encounter order
Dedup(s) == FoldLeft(LAMBDA acc, x : IF Includes(acc, x) THEN acc ELSE Append(acc, x), <<>>, s)

\* A Map<string, V> is the sequence of its values in insertion order; every
\* value carries its key in the field id.
MapHas(m, k) == \E i \in 1..Len(m) : m[i].id = k

MapIndex(m, k) == CHOOSE i \in 1..Len(m) : m[i].id = k

MapGet(m, k) == m[MapIndex(m, k)]

\* Map.prototype.set: an existing key keeps its position and takes the value
MapSet(m, v) ==
  IF MapHas(m, v.id) THEN [m EXCEPT ![MapIndex(m, v.id)] = v] ELSE Append(m, v)

\* null (no string of the model is empty)
Null == <<>>

\* The keys of a Map / the ids of an array of records
Ids(s) == {s[i].id : i \in 1..Len(s)}

\* Array.prototype.find on an id; Undefined when there is none
Undefined == [id |-> <<"undefined">>, undefined |-> TRUE]

FindById(s, k) == IF MapHas(s, k) THEN MapGet(s, k) ELSE Undefined

----------------------------------------------------------------------------
(* Strings                                                                 *)

IsBlank(tok) == tok = " "

RECURSIVE TrimLeft(_)
TrimLeft(s) == IF s # <<>> /\ IsBlank(Head(s)) THEN TrimLeft(Tail(s)) ELSE s

RECURSIVE TrimRight(_)
TrimRight(s) ==
  IF s # <<>> /\ IsBlank(s[Len(s)]) THEN TrimRight(SubSeq(s, 1, Len(s) - 1)) ELSE s

\* String.prototype.trim
Trim(s) == TrimRight(TrimLeft(s))

GrafanaCore == <<"grafana-core">>

StartsWith(s, prefix) ==
  Len(s) >= Len(prefix) /\ SubSeq(s, 1, Len(prefix)) = prefix

\* String.prototype.split('/')[0]: the text before the first "/"
RECURSIVE FirstSegment(_)
FirstSegment(s) ==
  IF s = <<>> \/ Head(s) = "/" THEN <<>> ELSE <<Head(s)>> \o FirstSegment(Tail(s))

----------------------------------------------------------------------------
(* The manifests (data.json).  pluginData is the sequence of the entries   *)
(* of the JSON object in key order; an entry is                            *)
(*   [id, addedLinks, addedComponents, addedFunctions : Seq([targets]),    *)
(*    extensionPoints, exposedComponents : Seq([id, title]),               *)
(*    dependencies : Seq(id)]                                              *)
(* where dependencies stands for dependencies.extensions.exposedComponents.*)

\* pluginData[potentialPluginId]
HasPlugin(pd, pluginId) == \E i \in 1..Len(pd) : pd[i].id = pluginId

NoTitle == <<>>

\* pluginInfo lacks the block: "extensions", "dependencies" or
\* "dependencies.extensions" is undefined
Lacks(p, block) == block \in p.missing

\* The exception of a property read on undefined
TypeError == [threw |-> "TypeError"]

Threw(g) == "threw" \in DOMAIN g

\* The statements after a call run only when the call returned
AndThen(result, Continue(_)) == IF Threw(result) THEN result ELSE Continue(result)

\* All targets of a list of added items, item by item (item.targets?.forEach);
\* an item without targets contributes none
Targets(items) ==
  FoldLeft(LAMBDA acc, item :
             IF "targets" \in DOMAIN item THEN acc \o item.targets ELSE acc,
           <<>>, items)

\* Mutation of findExtensionPointDetails: the "grafana/" prefix is tested
\* before the declarations
findExtensionPointDetails_PrefixFirst(target, pd) ==
  LET declares(i) == MapHas(pd[i].extensionPoints, target)
      potentialPluginId == FirstSegment(target)
      potentialPluginIdWithApp == potentialPluginId \o <<"-app">>
  IN  IF StartsWith(target, <<"grafana", "/">>)
      THEN [definingPlugin |-> GrafanaCore, title |-> NoTitle]
      ELSE IF \E i \in 1..Len(pd) : declares(i)
      THEN LET i == CHOOSE j \in 1..Len(pd) :
                      declares(j) /\ \A k \in 1..(j - 1) : ~declares(k)
           IN  [definingPlugin |-> pd[i].id,
                title |-> MapGet(pd[i].extensionPoints, target).title]
      ELSE IF HasPlugin(pd, potentialPluginId)
      THEN [definingPlugin |-> potentialPluginId, title |-> NoTitle]
      ELSE IF HasPlugin(pd, potentialPluginIdWithApp)
      THEN [definingPlugin |-> potentialPluginIdWithApp, title |-> NoTitle]
      ELSE [definingPlugin |-> GrafanaCore, title |-> NoTitle]

findExtensionPointDetails(target, pd) ==
  LET declares(i) == MapHas(pd[i].extensionPoints, target)
      potentialPluginId == FirstSegment(target)
      potentialPluginIdWithApp == potentialPluginId \o <<"-app">>
  IN  IF \E i \in 1..Len(pd) : declares(i)
      THEN LET i == CHOOSE j \in 1..Len(pd) :
                      declares(j) /\ \A k \in 1..(j - 1) : ~declares(k)
           IN  [definingPlugin |-> pd[i].id,
                title |-> MapGet(pd[i].extensionPoints, target).title]
      ELSE IF StartsWith(target, <<"grafana", "/">>)
      THEN [definingPlugin |-> GrafanaCore, title |-> NoTitle]
      ELSE IF HasPlugin(pd, potentialPluginId)
      THEN [definingPlugin |-> potentialPluginId, title |-> NoTitle]
      ELSE IF HasPlugin(pd, potentialPluginIdWithApp)
      THEN [definingPlugin |-> potentialPluginIdWithApp, title |-> NoTitle]
      ELSE [definingPlugin |-> GrafanaCore, title |-> NoTitle]

\* A node: its name and type are functions of the id alone and are left out.
Node(pluginId, description) == [id |-> pluginId, description |-> description]

EmptyGraph == [nodes |-> <<>>, dependencies |-> <<>>,
               extensionPoints |-> <<>>, exposedComponents |-> <<>>]

\* extensionPoints.set(target, ...) of a target that is not yet a key
DeclareTarget(eps, target, extensionDetails, extensionType) ==
  IF extensionDetails.definingPlugin # <<>> /\ ~MapHas(eps, target)
  THEN MapSet(eps, [id |-> target,
                    definingPlugin |-> extensionDetails.definingPlugin,
                    providers |-> <<>>,
                    extensionType |-> extensionType,
                    title |-> extensionDetails.title])
  ELSE eps

\* extensionPoint.providers.push(pluginId) unless it is already there
PushProvider(eps, target, pluginId) ==
  IF MapHas(eps, target) /\ ~Includes(MapGet(eps, target).providers, pluginId)
  THEN [eps EXCEPT ![MapIndex(eps, target)].providers = Append(@, pluginId)]
  ELSE eps

\* One target of an added link/component/function of plugin pluginId
AddTarget(g, pluginId, target, extensionType, pd) ==
  [g EXCEPT
     !.dependencies = Append(@, [source |-> pluginId, target |-> target,
                                 type |-> "extends",
                                 description |-> <<extensionType>>]),
     !.extensionPoints =
        PushProvider(DeclareTarget(@, target, findExtensionPointDetails(target, pd),
                                   extensionType),
                     target, pluginId)]

\* isContentProvider
IsContentProvider(p) ==
  Len(p.addedLinks) > 0 \/ Len(p.addedComponents) > 0 \/ Len(p.addedFunctions) > 0

\* isContentConsumer
IsContentConsumer(p) == Len(p.extensionPoints) > 0

\* nodes.set(pluginId, ...) of a plugin that provides or consumes
AddPluginNode(g, p) ==
  IF (IsContentProvider(p) \/ IsContentConsumer(p)) /\ ~MapHas(g.nodes, p.id)
  THEN [g EXCEPT !.nodes = Append(@, Node(p.id,
          IF IsContentProvider(p) /\ IsContentConsumer(p) THEN "provides and consumes"
          ELSE IF IsContentProvider(p) THEN "provides" ELSE "defines"))]
  ELSE g

\* One declared extension point of plugin pluginId: the first declaration of
\* an id stays
DeclareExtensionPoint(eps, extensionPoint, pluginId) ==
  IF ~MapHas(eps, extensionPoint.id)
  THEN MapSet(eps, [id |-> extensionPoint.id,
                    definingPlugin |-> pluginId,
                    providers |-> <<>>,
                    extensionType |-> "link",
                    title |-> extensionPoint.title])
  ELSE eps

\* The extension points the plugin defines
DeclareExtensionPoints(g, p) ==
  IF IsContentConsumer(p)
  THEN [g EXCEPT !.extensionPoints =
          FoldLeft(LAMBDA eps, extensionPoint :
                     DeclareExtensionPoint(eps, extensionPoint, p.id),
                   @, p.extensionPoints)]
  ELSE g

\* The targets of one list of added items, in order
AddTargets(g, p, items, extensionType, pd) ==
  FoldLeft(LAMBDA acc, t : AddTarget(acc, p.id, t, extensionType, pd), g, Targets(items))

\* The content the plugin provides: links, then components, then functions
AddProvided(g, p, pd) ==
  IF IsContentProvider(p)
  THEN AddTargets(AddTargets(AddTargets(g, p, p.addedLinks, "link", pd),
                             p, p.addedComponents, "component", pd),
                  p, p.addedFunctions, "function", pd)
  ELSE g

\* The body of the forEach over Object.entries(pluginData) in Add mode
AddPlugin(g, p, pd) == AddProvided(DeclareExtensionPoints(AddPluginNode(g, p), p), p, pd)

\* A node for every defining plugin that is not yet one
AddDefiningNodes(g) ==
  [g EXCEPT !.nodes =
     FoldLeft(LAMBDA ns, extensionPoint :
                IF ~MapHas(ns, extensionPoint.definingPlugin)
                THEN Append(ns, Node(extensionPoint.definingPlugin, "defines"))
                ELSE ns,
              @, g.extensionPoints)]

\* The graph of Add mode before any filter is applied
BuildAddGraph(pd) ==
  \* extensions.addedLinks is read for every plugin
  IF \E i \in 1..Len(pd) : Lacks(pd[i], "extensions") THEN TypeError
  ELSE AddDefiningNodes(FoldLeft(LAMBDA acc, p : AddPlugin(acc, p, pd), EmptyGraph, pd))

\* Mutation of ActiveConsumers: every plugin that still defines an extension
\* point counts as a consumer
ActiveConsumers_AllDefining(filteredDependencies, filteredExtensionPoints) ==
  {filteredExtensionPoints[i].definingPlugin : i \in 1..Len(filteredExtensionPoints)}

\* The default consumer set: the defining plugins of the extension points
\* that a dependency still targets
ActiveConsumers(filteredDependencies, filteredExtensionPoints) ==
  {FindById(filteredExtensionPoints, filteredDependencies[i].target).definingPlugin :
     i \in {j \in 1..Len(filteredDependencies) :
              MapHas(filteredExtensionPoints, filteredDependencies[j].target)}}

\* Mutation of FilterAddGraph: the nodes are not filtered after the consumer
\* step
FilterAddGraph_KeepNodes(g, selectedContentProviders, selectedContentConsumers) ==
  LET byProvider == selectedContentProviders # {}
      deps1 == IF byProvider
               THEN FilterSeq(g.dependencies, LAMBDA dep : dep.source \in selectedContentProviders)
               ELSE g.dependencies
      eps1 == IF byProvider
              THEN FilterSeq(
                     MapSeq(LAMBDA ep : [ep EXCEPT !.providers =
                              FilterSeq(@, LAMBDA provider : provider \in selectedContentProviders)],
                            g.extensionPoints),
                     LAMBDA ep : Len(ep.providers) > 0)
              ELSE g.extensionPoints
      activeDefiningPlugins == {eps1[i].definingPlugin : i \in 1..Len(eps1)}
      nodes1 == IF byProvider
                THEN FilterSeq(g.nodes, LAMBDA node :
                       node.id \in selectedContentProviders \/ node.id \in activeDefiningPlugins)
                ELSE g.nodes
      consumersToShow ==
        IF selectedContentConsumers = {}
        THEN ActiveConsumers(deps1, eps1) ELSE selectedContentConsumers
      eps2 == FilterSeq(eps1, LAMBDA ep : ep.definingPlugin \in consumersToShow)
      remainingExtensionPointIds == {eps2[i].id : i \in 1..Len(eps2)}
      deps2 == FilterSeq(deps1, LAMBDA dep : dep.target \in remainingExtensionPointIds)
      activeContentProviders == {deps2[i].source : i \in 1..Len(deps2)}
      nodes2 == FilterSeq(nodes1, LAMBDA node :
                  node.id \in consumersToShow \/ node.id \in activeContentProviders)
  IN  [nodes |-> nodes1, dependencies |-> deps2,
       extensionPoints |-> eps2, exposedComponents |-> <<>>]

\* The provider/consumer filter of Add mode.  The selections are read only
\* through includes / Set.has and length > 0, so they are sets here.
FilterAddGraph(g, selectedContentProviders, selectedContentConsumers) ==
  LET byProvider == selectedContentProviders # {}
      deps1 == IF byProvider
               THEN FilterSeq(g.dependencies, LAMBDA dep : dep.source \in selectedContentProviders)
               ELSE g.dependencies
      eps1 == IF byProvider
              THEN FilterSeq(
                     MapSeq(LAMBDA ep : [ep EXCEPT !.providers =
                              FilterSeq(@, LAMBDA provider : provider \in selectedContentProviders)],
                            g.extensionPoints),
                     LAMBDA ep : Len(ep.providers) > 0)
              ELSE g.extensionPoints
      activeDefiningPlugins == {eps1[i].definingPlugin : i \in 1..Len(eps1)}
      nodes1 == IF byProvider
                THEN FilterSeq(g.nodes, LAMBDA node :
                       node.id \in selectedContentProviders \/ node.id \in activeDefiningPlugins)
                ELSE g.nodes
      consumersToShow ==
        IF selectedContentConsumers = {}
        THEN ActiveConsumers(deps1, eps1) ELSE selectedContentConsumers
      eps2 == FilterSeq(eps1, LAMBDA ep : ep.definingPlugin \in consumersToShow)
      remainingExtensionPointIds == {eps2[i].id : i \in 1..Len(eps2)}
      deps2 == FilterSeq(deps1, LAMBDA dep : dep.target \in remainingExtensionPointIds)
      activeContentProviders == {deps2[i].source : i \in 1..Len(deps2)}
      nodes2 == FilterSeq(nodes1, LAMBDA node :
                  node.id \in consumersToShow \/ node.id \in activeContentProviders)
  IN  [nodes |-> nodes2, dependencies |-> deps2,
       extensionPoints |-> eps2, exposedComponents |-> <<>>]

\* First pass of Expose mode: the components one plugin exposes
ExposePlugin(g, p) ==
  LET expose(acc, exposedComponent) ==
        IF exposedComponent.id # <<>> /\ Trim(exposedComponent.id) # <<>>
        THEN [acc EXCEPT
                !.exposedComponents =
                   MapSet(@, [id |-> exposedComponent.id,
                              title |-> IF exposedComponent.title # NoTitle
                                        THEN exposedComponent.title
                                        ELSE exposedComponent.id,
                              providingPlugin |-> p.id,
                              consumers |-> <<>>]),
                !.nodes = IF ~MapHas(@, p.id) THEN Append(@, Node(p.id, "exposes")) ELSE @]
        ELSE acc
  IN  IF Len(p.exposedComponents) > 0 THEN FoldLeft(expose, g, p.exposedComponents) ELSE g

\* Second pass of Expose mode: the components one plugin depends on
ConsumePlugin(g, p) ==
  LET consume(acc, exposedComponentId) ==
        IF Trim(exposedComponentId) # <<>> /\ MapHas(acc.exposedComponents, exposedComponentId)
        THEN LET i == MapIndex(acc.exposedComponents, exposedComponentId)
                 exposedComponent == acc.exposedComponents[i]
             IN  [acc EXCEPT
                    !.exposedComponents[i].consumers =
                       IF ~Includes(@, p.id) THEN Append(@, p.id) ELSE @,
                    !.dependencies =
                       Append(@, [source |-> exposedComponent.providingPlugin,
                                  target |-> p.id,
                                  type |-> "depends",
                                  description |-> exposedComponent.title]),
                    !.nodes = IF ~MapHas(@, p.id) THEN Append(@, Node(p.id, "consumes")) ELSE @]
        ELSE acc
  IN  IF ~Lacks(p, "dependencies.extensions") /\ Len(p.dependencies) > 0
      THEN FoldLeft(consume, g, p.dependencies) ELSE g

\* The graph of Expose mode before any filter is applied
BuildExposeGraph(pd) ==
  \* extensions.exposedComponents and pluginDependencies.extensions are read
  \* for every plugin
  IF \E i \in 1..Len(pd) : Lacks(pd[i], "extensions") \/ Lacks(pd[i], "dependencies")
  THEN TypeError
  ELSE FoldLeft(ConsumePlugin, FoldLeft(ExposePlugin, EmptyGraph, pd), pd)

\* The provider/consumer filter of Expose mode
FilterExposeGraph(g, selectedContentProviders, selectedContentConsumers) ==
  LET byProvider == selectedContentProviders # {}
      byConsumer == selectedContentConsumers # {}
      comps1 == IF byProvider
                THEN FilterSeq(g.exposedComponents,
                               LAMBDA comp : comp.providingPlugin \in selectedContentProviders)
                ELSE g.exposedComponents
      deps1 == IF byProvider
               THEN FilterSeq(g.dependencies, LAMBDA dep : dep.target \in selectedContentProviders)
               ELSE g.dependencies
      deps2 == IF byConsumer
               THEN FilterSeq(deps1, LAMBDA dep : dep.source \in selectedContentConsumers)
               ELSE deps1
      comps2 == IF byConsumer
                THEN FilterSeq(comps1, LAMBDA comp :
                       \E k \in 1..Len(comp.consumers) : comp.consumers[k] \in selectedContentConsumers)
                ELSE comps1
      activeProviders == {comps2[i].providingPlugin : i \in 1..Len(comps2)}
      activeConsumers == {deps2[i].source : i \in 1..Len(deps2)}
      nodes1 == FilterSeq(g.nodes, LAMBDA node :
                  node.id \in activeProviders \/ node.id \in activeConsumers)
      comps3 == MapSeq(LAMBDA comp : [comp EXCEPT !.consumers =
                         FilterSeq(@, LAMBDA consumerId : consumerId \in activeConsumers)],
                       comps2)
  IN  [nodes |-> nodes1, dependencies |-> deps2,
       extensionPoints |-> <<>>, exposedComponents |-> comps3]

processPluginDataToExposeGraph(pd, opts) ==
  AndThen(BuildExposeGraph(pd),
          LAMBDA built : FilterExposeGraph(built, opts.selectedContentProviders,
                                           opts.selectedContentConsumers))

processPluginDataToGraph(pd, opts) ==
  IF opts.visualizationMode = "expose"
  THEN processPluginDataToExposeGraph(pd, opts)
  ELSE AndThen(BuildAddGraph(pd),
               LAMBDA built : FilterAddGraph(built, opts.selectedContentProviders,
                                             opts.selectedContentConsumers))

----------------------------------------------------------------------------
(* Layout (DependencyGraph).  A length of n pixels is the integer n * Unit;*)
(* Unit is divisible by every denominator the layout divides by for the    *)
(* canvas sizes of the model, so \div is exact.                            *)

Unit == 60 * 40

Px(n) == n * Unit

Max(a, b) == IF a >= b THEN a ELSE b

\* x * (num / den), e.g. width * 0.02 is Scale(width, 1, 50)
Scale(x, num, den) == (x * num) \div den

NoOriginalId == <<>>

\* Groups of a Map<string, string[]> filled in one pass: [id |-> key, ids |-> values]
GroupIds(entities, Owner(_)) ==
  FoldLeft(LAMBDA groups, e :
             IF MapHas(groups, Owner(e))
             THEN [groups EXCEPT ![MapIndex(groups, Owner(e))].ids = Append(@, e.id)]
             ELSE Append(groups, [id |-> Owner(e), ids |-> <<e.id>>]),
           <<>>, entities)

Margin(w) == Max(Px(20), Scale(w, 1, 50))

NodeWidth(w) == Max(Px(180), Scale(w, 3, 20))

ComponentSpacing(opts, h) ==
  Max(Px(75), Scale(h, 2, 25)) + (IF opts.showDescriptions THEN Px(20) ELSE 0)

GroupSpacing(h) == Max(Px(40), Scale(h, 1, 20))

\* Mutation of ConsumerY: the minimum spacing is used whether it fits or not
ConsumerY_MinSpacing(currentGroupY, groupHeight, n, consumerIndex) ==
  IF n = 1
  THEN currentGroupY + groupHeight \div 2
  ELSE currentGroupY + Px(60) + consumerIndex * Px(80)

\* y of the consumer at consumerIndex (0-based) among n consumers of a group
ConsumerY(currentGroupY, groupHeight, n, consumerIndex) ==
  IF n = 1
  THEN currentGroupY + groupHeight \div 2
  ELSE LET minSpacing == Px(80)
           startY == currentGroupY + Px(60)
           totalSpacing == (n - 1) * minSpacing
           availableHeight == groupHeight - Px(120)
       IN  IF totalSpacing <= availableHeight
           THEN startY + consumerIndex * minSpacing
           ELSE startY + consumerIndex * (availableHeight \div (n - 1))

\* Mutation of ConsumersByProvider: an array instead of a Set
ConsumersByProvider_Array(g, providingPlugin) ==
  FoldLeft(LAMBDA acc, comp :
             IF comp.providingPlugin = providingPlugin THEN acc \o comp.consumers ELSE acc,
           <<>>, g.exposedComponents)

\* consumersByProvider.get(providingPlugin): the consumers of the components
\* of one provider, as a Set in encounter order
ConsumersByProvider(g, providingPlugin) ==
  Dedup(FoldLeft(LAMBDA acc, comp :
                   IF comp.providingPlugin = providingPlugin
                   THEN acc \o comp.consumers ELSE acc,
                 <<>>, g.exposedComponents))

\* Expose-mode branch of calculateLayout
ExposeLayout(g, opts, w, h) ==
  LET margin == Margin(w)
      contentProviders == {g.exposedComponents[i].providingPlugin :
                             i \in 1..Len(g.exposedComponents)}
      providerNodes == FilterSeq(g.nodes, LAMBDA node : node.id \in contentProviders)
      componentGroupsByProvider == GroupIds(g.exposedComponents, LAMBDA comp : comp.providingPlugin)
      rightMargin == Max(Px(40), Scale(w, 1, 25))
      consumerX == w - rightMargin - NodeWidth(w) \div 2
      componentSpacing == ComponentSpacing(opts, h)
      groupSpacing == GroupSpacing(h)
      placeGroup(st, group) ==
        LET groupHeight == Len(group.ids) * componentSpacing + Px(70)
            groupCenterY == st.currentGroupY + groupHeight \div 2
            withProvider ==
              IF MapHas(providerNodes, group.id)
              THEN Append(st.result,
                          [id |-> group.id,
                           description |-> MapGet(providerNodes, group.id).description,
                           originalId |-> NoOriginalId,
                           x |-> margin + NodeWidth(w) \div 2,
                           y |-> groupCenterY])
              ELSE st.result
            consumerArray == ConsumersByProvider(g, group.id)
            withConsumers ==
              FoldLeft(LAMBDA acc, k :
                         IF MapHas(g.nodes, consumerArray[k])
                         THEN Append(acc,
                                [id |-> consumerArray[k] \o <<"-at-">> \o group.id,
                                 description |-> MapGet(g.nodes, consumerArray[k]).description,
                                 originalId |-> consumerArray[k],
                                 x |-> consumerX,
                                 y |-> ConsumerY(st.currentGroupY, groupHeight,
                                                 Len(consumerArray), k - 1)])
                         ELSE acc,
                       withProvider, [k \in 1..Len(consumerArray) |-> k])
        IN  [result |-> withConsumers,
             currentGroupY |-> st.currentGroupY + groupHeight + groupSpacing]
  IN  FoldLeft(placeGroup, [result |-> <<>>, currentGroupY |-> margin + Px(20)],
               componentGroupsByProvider).result

\* Add-mode branch of calculateLayout
AddLayout(g, opts, w, h) ==
  LET margin == Margin(w)
      nodeSpacing == Max(Px(70), Scale(h, 2, 25))
      contentProviders ==
        {g.dependencies[i].source :
           i \in {j \in 1..Len(g.dependencies) : MapHas(g.extensionPoints, g.dependencies[j].target)}}
      providerNodes == FilterSeq(g.nodes, LAMBDA node : node.id \in contentProviders)
      providerStartY == margin + Px(75)
  IN  [index \in 1..Len(providerNodes) |->
         [id |-> providerNodes[index].id,
          description |-> providerNodes[index].description,
          originalId |-> NoOriginalId,
          x |-> margin + Px(90),
          y |-> providerStartY + (index - 1) * nodeSpacing]]

\* Mutation of calculateLayout: a node that already has a stored position
\* keeps it (the stored positions are used as a base)
calculateLayout_KeepStored(g, opts, w, h) ==
  LET fresh == IF Len(g.nodes) = 0 THEN <<>>
               ELSE IF opts.visualizationMode = "expose" THEN ExposeLayout(g, opts, w, h)
               ELSE AddLayout(g, opts, w, h)
  IN  MapSeq(LAMBDA n : IF MapHas(nodes, n.id) THEN MapGet(nodes, n.id) ELSE n, fresh)

calculateLayout(g, opts, w, h) ==
  IF Len(g.nodes) = 0 THEN <<>>
  ELSE IF opts.visualizationMode = "expose" THEN ExposeLayout(g, opts, w, h)
  ELSE AddLayout(g, opts, w, h)

\* Mutation of GroupPositions: the cursor advances by the group height alone
GroupPositions_NoGap(groups, x, firstGroupY, itemOffset, itemSpacing, groupPadding, groupSpacing) ==
  FoldLeft(LAMBDA st, group :
             LET groupHeight == Len(group.ids) * itemSpacing + groupPadding
             IN  [positions |->
                    FoldLeft(LAMBDA acc, index :
                               MapSet(acc, [id |-> group.ids[index],
                                            x |-> x,
                                            y |-> st.currentGroupY + itemOffset
                                                    + (index - 1) * itemSpacing,
                                            groupY |-> st.currentGroupY,
                                            groupHeight |-> groupHeight]),
                             st.positions, [index \in 1..Len(group.ids) |-> index]),
                  currentGroupY |-> st.currentGroupY + groupHeight],
           [positions |-> <<>>, currentGroupY |-> firstGroupY], groups).positions

\* Positions of the items of stacked groups: a Map id -> {x, y, groupY, groupHeight}
GroupPositions(groups, x, firstGroupY, itemOffset, itemSpacing, groupPadding, groupSpacing) ==
  FoldLeft(LAMBDA st, group :
             LET groupHeight == Len(group.ids) * itemSpacing + groupPadding
             IN  [positions |->
                    FoldLeft(LAMBDA acc, index :
                               MapSet(acc, [id |-> group.ids[index],
                                            x |-> x,
                                            y |-> st.currentGroupY + itemOffset
                                                    + (index - 1) * itemSpacing,
                                            groupY |-> st.currentGroupY,
                                            groupHeight |-> groupHeight]),
                             st.positions, [index \in 1..Len(group.ids) |-> index]),
                  currentGroupY |-> st.currentGroupY + groupHeight + groupSpacing],
           [positions |-> <<>>, currentGroupY |-> firstGroupY], groups).positions

getExtensionPointPositions(g, opts, w, h) ==
  IF opts.visualizationMode = "expose" THEN <<>>
  ELSE LET margin == Margin(w)
           extensionPointSpacing == Px(65) + (IF opts.showDescriptions THEN Px(20) ELSE 0)
           extensionBoxWidth == Px(280)
           rightSideX == w - margin - extensionBoxWidth - Px(10)
       IN  GroupPositions(GroupIds(g.extensionPoints, LAMBDA ep : ep.definingPlugin),
                          rightSideX, margin + Px(50), Px(70),
                          extensionPointSpacing, Px(50), Px(40))

getExposedComponentPositions(g, opts, w, h) ==
  IF opts.visualizationMode # "expose" THEN <<>>
  ELSE LET margin == Margin(w)
           componentBoxWidth == Max(Px(300), Scale(w, 1, 5))
           centerX == w \div 2 - componentBoxWidth \div 2
       IN  GroupPositions(GroupIds(g.exposedComponents, LAMBDA comp : comp.providingPlugin),
                          centerX, margin + Px(20), Px(60),
                          ComponentSpacing(opts, h), Px(70), GroupSpacing(h))

\* Total of groupHeight + groupSpacing over the groups, from the start value
StackedHeight(groups, start, spacing, groupSpacing) ==
  FoldLeft(LAMBDA totalHeight, group :
             totalHeight + (Len(group.ids) * spacing + Px(70)) + groupSpacing,
           start, groups)

\* Mutation of calculateContentHeight: the total is not floored at the
\* canvas height
calculateContentHeight_NoFloor(g, opts, w, h) ==
  LET margin == Margin(w)
      spacing == ComponentSpacing(opts, h)
      groupSpacing == GroupSpacing(h)
      start == margin + Px(135)
  IN  IF opts.visualizationMode = "expose" /\ Len(g.exposedComponents) > 0
      THEN StackedHeight(GroupIds(g.exposedComponents, LAMBDA comp : comp.providingPlugin),
                         start, spacing, groupSpacing)
      ELSE IF opts.visualizationMode # "expose" /\ Len(g.extensionPoints) > 0
      THEN StackedHeight(GroupIds(g.extensionPoints, LAMBDA ep : ep.definingPlugin),
                         start, spacing, groupSpacing)
      ELSE h

calculateContentHeight(g, opts, w, h) ==
  LET margin == Margin(w)
      spacing == ComponentSpacing(opts, h)
      groupSpacing == GroupSpacing(h)
      start == margin + Px(135)
  IN  IF opts.visualizationMode = "expose" /\ Len(g.exposedComponents) > 0
      THEN Max(StackedHeight(GroupIds(g.exposedComponents, LAMBDA comp : comp.providingPlugin),
                             start, spacing, groupSpacing), h)
      ELSE IF opts.visualizationMode # "expose" /\ Len(g.extensionPoints) > 0
      THEN Max(StackedHeight(GroupIds(g.extensionPoints, LAMBDA ep : ep.definingPlugin),
                             start, spacing, groupSpacing), h)
      ELSE h

\* String.prototype.includes
StringIncludes(s, sub) ==
  \E i \in 0..(Len(s) - Len(sub)) : SubSeq(s, i + 1, i + Len(sub)) = sub

\* groupedDeps: Map<source, Map<definingPlugin, target[]>> over the
\* dependencies whose target is an extension point of the graph, as the
\* sequence of [id |-> source, groups |-> <<[id |-> definingPlugin, ids]>>]
GroupedDeps(g) ==
  FoldLeft(LAMBDA grouped, dep :
             IF ~MapHas(g.extensionPoints, dep.target) THEN grouped
             ELSE LET definingPlugin == MapGet(g.extensionPoints, dep.target).definingPlugin
                      g1 == IF MapHas(grouped, dep.source) THEN grouped
                            ELSE Append(grouped, [id |-> dep.source, groups |-> <<>>])
                      i == MapIndex(g1, dep.source)
                      g2 == IF MapHas(g1[i].groups, definingPlugin) THEN g1
                            ELSE [g1 EXCEPT ![i].groups =
                                    Append(@, [id |-> definingPlugin, ids |-> <<>>])]
                      j == MapIndex(g2[i].groups, definingPlugin)
                  IN  [g2 EXCEPT ![i].groups[j].ids = Append(@, dep.target)],
           <<>>, g.dependencies)

\* A connector: the element the router emits.  kind is "add", "provider" or
\* "consumer"; from and to name the node instance and the mediating entity
\* (Add: the defining plugin of the group) it joins; ids are the mediating
\* entities of its group.
Connector(kind, from, to, ids, x1, y1, x2, y2, isHighlighted, selected) ==
  [kind |-> kind, from |-> from, to |-> to, ids |-> ids,
   x1 |-> x1, y1 |-> y1, x2 |-> x2, y2 |-> y2,
   highlighted |-> isHighlighted,
   dimmed |-> (selected # Null /\ ~isHighlighted)]

\* Mutation of AddConnector: only a click on the first extension point of
\* the group highlights
AddConnector_FirstOnly(sourceNode, group, positions, selected, w) ==
  LET firstExtensionPos == MapGet(positions, group.ids[1])
  IN  Connector("add", sourceNode.id, group.id, group.ids,
                sourceNode.x + NodeWidth(w) \div 2, sourceNode.y,
                firstExtensionPos.x - Px(20),
                firstExtensionPos.groupY + firstExtensionPos.groupHeight \div 2,
                selected # Null /\ selected = group.ids[1], selected)

\* The arrow of one (source, definingPlugin) group
AddConnector(sourceNode, group, positions, selected, w) ==
  LET firstExtensionPos == MapGet(positions, group.ids[1])
  IN  Connector("add", sourceNode.id, group.id, group.ids,
                sourceNode.x + NodeWidth(w) \div 2, sourceNode.y,
                firstExtensionPos.x - Px(20),
                firstExtensionPos.groupY + firstExtensionPos.groupHeight \div 2,
                selected # Null /\ Includes(group.ids, selected), selected)

\* Mutation of AddConnectors: one arrow for every dependency of a group
AddConnectors_PerDependency(g, layout, positions, selected, w) ==
  FoldLeft(LAMBDA arrows, bySource :
             IF ~MapHas(layout, bySource.id) THEN arrows
             ELSE FoldLeft(LAMBDA acc, group :
                             IF ~MapHas(positions, group.ids[1]) THEN acc
                             ELSE acc \o [k \in 1..Len(group.ids) |->
                                            AddConnector(MapGet(layout, bySource.id), group,
                                                         positions, selected, w)],
                           arrows, bySource.groups),
           <<>>, GroupedDeps(g))

\* Add-mode branch of renderDependencyLinks
AddConnectors(g, layout, positions, selected, w) ==
  FoldLeft(LAMBDA arrows, bySource :
             IF ~MapHas(layout, bySource.id) THEN arrows
             ELSE FoldLeft(LAMBDA acc, group :
                             IF ~MapHas(positions, group.ids[1]) THEN acc
                             ELSE Append(acc, AddConnector(MapGet(layout, bySource.id), group,
                                                           positions, selected, w)),
                           arrows, bySource.groups),
           <<>>, GroupedDeps(g))

\* The arrows between one exposed component and its consumer instances
ConsumerConnectors(exposedComponent, layout, componentPos, isHighlighted, selected, w) ==
  LET componentBoxWidth == Max(Px(300), Scale(w, 1, 5))
  IN  FoldLeft(LAMBDA arrows, consumerId :
                 arrows \o
                 MapSeq(LAMBDA consumerNode :
                          Connector("consumer", consumerNode.id, exposedComponent.id,
                                    <<exposedComponent.id>>,
                                    consumerNode.x - NodeWidth(w) \div 2, consumerNode.y,
                                    componentPos.x + componentBoxWidth, componentPos.y,
                                    isHighlighted, selected),
                        FilterSeq(FilterSeq(layout, LAMBDA n : n.originalId = consumerId),
                                  LAMBDA consumerNode :
                                    StringIncludes(consumerNode.id,
                                                   <<"-at-">> \o exposedComponent.providingPlugin))),
               <<>>, exposedComponent.consumers)

\* Mutation of ProviderConnectors: the line starts at the centre of the node
ProviderConnectors_FromCentre(exposedComponent, layout, componentPos, isHighlighted, selected, w) ==
  LET providers == FilterSeq(layout, LAMBDA n :
                     n.id = exposedComponent.providingPlugin /\ n.originalId = NoOriginalId)
  IN  IF providers = <<>> THEN <<>>
      ELSE <<Connector("provider", providers[1].id, exposedComponent.id,
                       <<exposedComponent.id>>,
                       providers[1].x, providers[1].y,
                       componentPos.x, componentPos.y, isHighlighted, selected)>>

\* The arrow from the providing plugin's node to one exposed component
ProviderConnectors(exposedComponent, layout, componentPos, isHighlighted, selected, w) ==
  LET providers == FilterSeq(layout, LAMBDA n :
                     n.id = exposedComponent.providingPlugin /\ n.originalId = NoOriginalId)
  IN  IF providers = <<>> THEN <<>>
      ELSE <<Connector("provider", providers[1].id, exposedComponent.id,
                       <<exposedComponent.id>>,
                       providers[1].x + NodeWidth(w) \div 2, providers[1].y,
                       componentPos.x, componentPos.y, isHighlighted, selected)>>

renderExposeDependencyLinks(g, layout, positions, selected, w) ==
  FoldLeft(LAMBDA arrows, exposedComponent :
             IF ~MapHas(positions, exposedComponent.id) THEN arrows
             ELSE LET componentPos == MapGet(positions, exposedComponent.id)
                      isHighlighted == selected = exposedComponent.id
                  IN  arrows
                        \o ProviderConnectors(exposedComponent, layout, componentPos,
                                              isHighlighted, selected, w)
                        \o ConsumerConnectors(exposedComponent, layout, componentPos,
                                              isHighlighted, selected, w),
           <<>>, g.exposedComponents)

\* The arrows of one render; selectedPoint and selectedComponent are the two
\* selection states
renderDependencyLinks(g, opts, layout, selectedPoint, selectedComponent, w, h) ==
  IF opts.visualizationMode = "expose"
  THEN renderExposeDependencyLinks(g, layout, getExposedComponentPositions(g, opts, w, h),
                                   selectedComponent, w)
  ELSE AddConnectors(g, layout, getExtensionPointPositions(g, opts, w, h), selectedPoint, w)

\* renderNodes: the box of a node starts nodeWidth / 2 left of its position
\* and is nodeWidth wide
NodeBoxLeft(node, w) == node.x - NodeWidth(w) \div 2

NodeBoxRight(node, w) == NodeBoxLeft(node, w) + NodeWidth(w)

\* nodeHeight of renderNodes
NodeHeight(h) == Max(Px(50), Scale(h, 1, 20))

\* The top and bottom edge of the box drawn for a positioned node
NodeBoxTop(node, h) == node.y - NodeHeight(h) \div 2

NodeBoxBottom(node, h) == NodeBoxTop(node, h) + NodeHeight(h)

\* originalComponentHeight of renderExposedComponents
OriginalComponentHeight(h) == Max(Px(55), Scale(h, 3, 50))

\* The top and bottom edge of the box of an exposed component
ComponentBoxTop(pos, h) == pos.y - OriginalComponentHeight(h) \div 2

ComponentBoxBottom(pos, opts, h) ==
  ComponentBoxTop(pos, h) + OriginalComponentHeight(h)
    + (IF opts.showDescriptions THEN Px(20) ELSE 0)

\* componentBoxWidth of renderExposedComponents
ComponentBoxWidth(w) == Max(Px(300), Scale(w, 1, 5))

\* The left and right edge of the box of an exposed component
ComponentBoxLeft(pos) == pos.x

ComponentBoxRight(pos, w) == pos.x + ComponentBoxWidth(w)

\* The left edge of the box of an extension point
ExtensionBoxLeft(pos) == pos.x

\* originalHeight of renderExtensionPoints
OriginalHeight(showDependencyTypes) == IF showDependencyTypes THEN Px(60) ELSE Px(40)

\* The top and bottom edge of the box of an extension point
ExtensionBoxTop(pos, showDependencyTypes) ==
  pos.y - OriginalHeight(showDependencyTypes) \div 2

ExtensionBoxBottom(pos, opts, showDependencyTypes) ==
  ExtensionBoxTop(pos, showDependencyTypes) + OriginalHeight(showDependencyTypes)
    + (IF opts.showDescriptions THEN Px(20) ELSE 0)

\* getAvailableContentProviders(mode).  The sorted array is read only
\* through includes, so it is a set here.
getAvailableContentProviders(pd, mode) ==
  {pd[i].id : i \in {j \in 1..Len(pd) :
     IF mode = "expose"
     THEN /\ Len(pd[j].exposedComponents) > 0
          /\ \E k \in 1..Len(pd[j].exposedComponents) :
               /\ pd[j].exposedComponents[k].id # <<>>
               /\ Trim(pd[j].exposedComponents[k].id) # <<>>
     ELSE \/ Len(pd[j].addedLinks) > 0
          \/ Len(pd[j].addedComponents) > 0
          \/ Len(pd[j].addedFunctions) > 0}}

\* Array.prototype.some with a callback that may throw: "true" at the first
\* element that passes, "throw" when the callback throws before that
Some(s, Test(_)) ==
  FoldLeft(LAMBDA acc, x : IF acc = "false" THEN Test(x) ELSE acc, "false", s)

Truth(b) == IF b THEN "true" ELSE "false"

\* Some plugin exposes the component a plugin depends on
IsExposed(pd, exposedComponentId) ==
  Some(pd, LAMBDA otherPlugin :
             IF Lacks(otherPlugin, "extensions") THEN "throw"
             ELSE Truth(\E k \in 1..Len(otherPlugin.exposedComponents) :
                          otherPlugin.exposedComponents[k].id = exposedComponentId))

hasValidDependencies(pd, pluginInfo) ==
  Some(pluginInfo.dependencies, LAMBDA exposedComponentId : IsExposed(pd, exposedComponentId))

hasProviders(pd, pluginInfo) ==
  Some(pd, LAMBDA otherPlugin :
             IF Lacks(otherPlugin, "extensions") THEN "throw"
             ELSE Truth(\E target \in Range(Targets(otherPlugin.addedLinks
                                                     \o otherPlugin.addedComponents
                                                     \o otherPlugin.addedFunctions)) :
                          target \in Ids(pluginInfo.extensionPoints)))

\* The test getActiveContentConsumers applies to one entry of data.json
IsActiveConsumer(pd, pluginInfo, mode) ==
  IF mode = "expose"
  THEN IF Lacks(pluginInfo, "dependencies") THEN "throw"
       ELSE IF ~Lacks(pluginInfo, "dependencies.extensions") /\ Len(pluginInfo.dependencies) > 0
            THEN hasValidDependencies(pd, pluginInfo)
            ELSE "false"
  ELSE IF Lacks(pluginInfo, "extensions") THEN "throw"
       ELSE IF Len(pluginInfo.extensionPoints) > 0
            THEN hasProviders(pd, pluginInfo)
            ELSE "false"

\* getActiveContentConsumers(mode).  The sorted array is compared and read
\* as a set of plugin ids, so it is a set here.
getActiveContentConsumers(pd, mode) ==
  IF \E i \in 1..Len(pd) : IsActiveConsumer(pd, pd[i], mode) = "throw"
  THEN TypeError
  ELSE [consumers |->
          {pd[i].id : i \in {j \in 1..Len(pd) : IsActiveConsumer(pd, pd[j], mode) = "true"}}]

\* processTableDataToGraph: the panel data is not read
processTableDataToGraph(tableData, pd, opts) == processPluginDataToGraph(pd, opts)

----------------------------------------------------------------------------
(* Inputs of the model                                                     *)

\* Extension points a plugin declares / components a plugin exposes at most
MaxPoints == 2

MaxComponents == 2

PA == <<"a">>

PB == <<"b">>

PC == <<"c">>

\* A plugin id that no manifest has
PZ == <<"z">>

PluginOrder == <<PA, PB, PC>>

PluginIds == Range(PluginOrder)

PluginPos(p) == CHOOSE i \in 1..Len(PluginOrder) : PluginOrder[i] = p

NextPlugin(p) == PluginOrder[(PluginPos(p) % Len(PluginOrder)) + 1]

PrevPlugin(p) == PluginOrder[((PluginPos(p) + Len(PluginOrder) - 2) % Len(PluginOrder)) + 1]

ItemNames == <<"x1", "x2", "x3", "x4">>

\* "<plugin>/<name>"
Ep(p, k) == p \o <<"/", ItemNames[k]>>

\* "<plugin>.<name>"
Comp(p, k) == p \o <<".", ItemNames[k]>>

CoreEp == <<"grafana", "/", "x1">>

Titled(id) == [id |-> id, title |-> <<"title">> \o id]

Untitled(id) == [id |-> id, title |-> NoTitle]

EmptyManifest(p) ==
  [id |-> p, addedLinks |-> <<>>, addedComponents |-> <<>>, addedFunctions |-> <<>>,
   extensionPoints |-> <<>>, exposedComponents |-> <<>>, dependencies |-> <<>>,
   missing |-> {}]

\* Manifests that only take part in Add mode
AddConsumer(p) ==
  [EmptyManifest(p) EXCEPT
     !.extensionPoints = [k \in 1..MaxPoints |-> Titled(Ep(p, k))]]

AddProvider(p) ==
  [EmptyManifest(p) EXCEPT
     !.addedLinks = <<[targets |-> <<Ep(NextPlugin(p), 1)>>]>>]

AddProviderTwice(p) ==
  [EmptyManifest(p) EXCEPT
     !.addedLinks = <<[targets |-> <<Ep(NextPlugin(p), 1), Ep(PrevPlugin(p), 1)>>]>>,
     !.addedComponents = <<[targets |-> <<Ep(NextPlugin(p), 1)>>]>>]

AddBoth(p) ==
  [EmptyManifest(p) EXCEPT
     !.extensionPoints = <<Untitled(Ep(p, 1))>>,
     !.addedFunctions = <<[targets |-> <<CoreEp>>], [targets |-> <<Ep(NextPlugin(p), 2)>>]>>]

AddManifests(p) == {AddConsumer(p), AddProvider(p), AddProviderTwice(p), AddBoth(p)}

\* Manifests that only take part in Expose mode
Exposer(p) ==
  [EmptyManifest(p) EXCEPT
     !.exposedComponents = [k \in 1..MaxComponents |-> Titled(Comp(p, k))]]

Consumer(p) ==
  [EmptyManifest(p) EXCEPT
     !.dependencies = <<Comp(NextPlugin(p), 1), Comp(PrevPlugin(p), 1)>>]

ExposerConsumer(p) ==
  [EmptyManifest(p) EXCEPT
     !.exposedComponents = <<Untitled(Comp(p, 1))>>,
     !.dependencies = <<Comp(NextPlugin(p), 1)>>]

\* Exposes a blank id and an id of the next plugin as well, and declares
\* one dependency twice
ReExposer(p) ==
  [EmptyManifest(p) EXCEPT
     !.exposedComponents = <<Titled(Comp(p, 1)), Untitled(<<" ">>), Titled(Comp(NextPlugin(p), 1))>>,
     !.dependencies = <<Comp(PrevPlugin(p), 1), Comp(PrevPlugin(p), 1), Comp(PrevPlugin(p), 2)>>]

ExposeManifests(p) == {Exposer(p), Consumer(p), ExposerConsumer(p), ReExposer(p)}

\* data.json: one manifest per plugin, in key order
Datasets(Choices(_)) ==
  { pd \in [1..Len(PluginOrder) -> UNION {Choices(p) : p \in PluginIds}] :
      \A i \in 1..Len(PluginOrder) : pd[i].id = PluginOrder[i] }

ManifestSets ==
  Datasets(LAMBDA p : AddManifests(p) \cup {EmptyManifest(p)})
    \cup Datasets(LAMBDA p : ExposeManifests(p) \cup {EmptyManifest(p)})

\* The manifest sets of the full panel model
ScenarioData ==
  { <<AddProvider(PA), AddConsumer(PB), AddBoth(PC)>>,
    <<AddProviderTwice(PA), AddBoth(PB), AddConsumer(PC)>>,
    <<Exposer(PA), Consumer(PB), Consumer(PC)>>,
    <<Exposer(PA), ReExposer(PB), ReExposer(PC)>> }

\* A manifest that takes part in both modes
Mixed(p) ==
  [AddBoth(p) EXCEPT
     !.exposedComponents = Exposer(p).exposedComponents,
     !.dependencies = Consumer(p).dependencies]

\* A plugin whose id starts with the id of another plugin
PAApp == PA \o <<"-app">>

\* Plugins a and a-app expose one component each, c consumes both and
\* exposes a component that a consumes
PrefixData ==
  << [EmptyManifest(PA) EXCEPT !.exposedComponents = <<Titled(Comp(PA, 1))>>,
                               !.dependencies = <<Comp(PC, 1)>>],
     [EmptyManifest(PAApp) EXCEPT !.exposedComponents = <<Titled(Comp(PAApp, 1))>>],
     [EmptyManifest(PC) EXCEPT !.exposedComponents = <<Titled(Comp(PC, 1))>>,
                               !.dependencies = <<Comp(PA, 1), Comp(PAApp, 1)>>] >>

\* Adds to two extension points of the next plugin, to one of them twice
AddProviderMany(p) ==
  [EmptyManifest(p) EXCEPT
     !.addedLinks = <<[targets |-> <<Ep(NextPlugin(p), 1), Ep(NextPlugin(p), 2)>>]>>,
     !.addedComponents = <<[targets |-> <<Ep(NextPlugin(p), 2)>>]>>]

\* The manifest sets of the selection model
SelectData ==
  ScenarioData \cup { <<Mixed(PA), Mixed(PB), Mixed(PC)>>,
                      <<AddProviderTwice(PA), Mixed(PB), Exposer(PC)>>,
                      <<AddProviderMany(PA), AddConsumer(PB), AddProvider(PC)>>,
                      PrefixData }

\* Manifests that lack an expected block
NoExtensions(p) == [EmptyManifest(p) EXCEPT !.missing = {"extensions"}]

NoDependencies(p) ==
  [Mixed(p) EXCEPT !.dependencies = <<>>, !.missing = {"dependencies"}]

NoDependencyExtensions(p) ==
  [Mixed(p) EXCEPT !.dependencies = <<>>, !.missing = {"dependencies.extensions"}]

NoTargets(p) ==
  [Mixed(p) EXCEPT !.addedLinks = <<[title |-> <<"link">>], [targets |-> <<Ep(NextPlugin(p), 1)>>]>>]

Malformed(p) == {NoExtensions(p), NoDependencies(p), NoDependencyExtensions(p), NoTargets(p)}

\* Manifest sets with at most one malformed entry
MalformedData ==
  { [i \in 1..Len(PluginOrder) |-> IF i = k THEN m ELSE Mixed(PluginOrder[i])] :
      k \in 1..Len(PluginOrder),
      m \in UNION {Malformed(p) \cup {Mixed(p)} : p \in PluginIds} }

\* A plugin id that no manifest has, as the first segment of a target
PQ == <<"q">>

\* Targets that no plugin declares: a/x1 with the plugin a-app, q/x1 with no
\* plugin q or q-app, grafana/x1; and targets whose declaring plugin c is
\* not the plugin that their id names
InferData ==
  { << EmptyManifest(PAApp),
       [EmptyManifest(PB) EXCEPT
          !.addedLinks = <<[targets |-> <<Ep(PA, 1), Ep(PQ, 1), CoreEp>>]>>],
       EmptyManifest(PC) >>,
    << [EmptyManifest(PA) EXCEPT
          !.addedComponents = <<[targets |-> <<CoreEp, Ep(PB, 1)>>]>>],
       EmptyManifest(PB),
       [EmptyManifest(PC) EXCEPT
          !.extensionPoints = <<Titled(CoreEp), Untitled(Ep(PB, 1))>>] >> }

\* Exposes k components and depends on the first component of the plugins
\* of D
Crowd(p, k, D) ==
  [EmptyManifest(p) EXCEPT
     !.exposedComponents = [j \in 1..k |-> Titled(Comp(p, j))],
     !.dependencies = MapSeq(LAMBDA d : Comp(d, 1),
                             FilterSeq(PluginOrder, LAMBDA d : d \in D))]

\* The plugins a crowding manifest depends on: the previous one, the two
\* others, or all three
CrowdDeps(p) == {{PrevPlugin(p)}, PluginIds \ {p}, PluginIds}

CrowdManifests(p) == {Crowd(p, k, D) : k \in 1..MaxComponents, D \in CrowdDeps(p)}

\* Manifest sets in which a provider has one, two or three consumers
CrowdData == Datasets(CrowdManifests)

\* Manifests that add content of one kind to the first extension point of
\* the next plugin
AddComponents(p) ==
  [EmptyManifest(p) EXCEPT
     !.addedComponents = <<[targets |-> <<Ep(NextPlugin(p), 1)>>]>>]

AddFunctions(p) ==
  [EmptyManifest(p) EXCEPT
     !.addedFunctions = <<[targets |-> <<Ep(NextPlugin(p), 1)>>]>>]

\* The orders in which Object.entries can list the keys of data.json
KeyOrders ==
  {f \in [1..Len(PluginOrder) -> 1..Len(PluginOrder)] :
     \A i, k \in 1..Len(PluginOrder) : f[i] = f[k] => i = k}

\* data.json with its keys in another order
Reorder(pd, f) == [i \in 1..Len(pd) |-> pd[f[i]]]

\* Declaring and providing plugins, in every key order
OrderData ==
  {Reorder(pd, f) :
     pd \in Datasets(LAMBDA p : {AddConsumer(p), AddProvider(p), AddComponents(p), AddFunctions(p)}),
     f \in KeyOrders}

\* Providers of one extension point at most
MaxProviders == 5

ColumnNames == <<"p1", "p2", "p3", "p4", "p5", "p6", "p7", "p8">>

\* data.json with n plugins that each add one link to the same target
ProviderColumn(n, target) ==
  [i \in 1..n |-> [EmptyManifest(<<ColumnNames[i]>>) EXCEPT
                     !.addedLinks = <<[targets |-> <<target>>]>>,
                     !.exposedComponents = <<Titled(Comp(<<ColumnNames[i]>>, 1))>>]]

\* Manifest sets with a column of providers next to a single group
ProviderColumns == {ProviderColumn(n, target) : n \in 1..MaxProviders, target \in {CoreEp, Ep(PQ, 1)}}

\* The selections the option editors can store
Selections == (SUBSET PluginIds) \cup {{PZ}}

\* The selections tried in the full panel model
FewSelections == {{}, {PA}, {PB}}

\* Canvas sizes, in pixels
CanvasSizes == {<<400, 300>>, <<800, 600>>, <<1600, 1200>>}

FewSizes == {<<800, 600>>, <<1600, 1200>>}

\* The rows of the panel's table data: named string fields
Row(from, to, relation, extensionId, extensionType) ==
  [from_app |-> from, to_app |-> to, relation |-> relation,
   extension_id |-> extensionId, extension_type |-> extensionType]

ScenarioRow == Row(PA, PB, "extends", Ep(PB, 1), "link")

\* A row with an empty required value
BlankRow == Row(PA, <<>>, "extends", Ep(PB, 1), "link")

RowSets == {<<>>, <<ScenarioRow>>, <<BlankRow, ScenarioRow>>}

getDefaultOptions ==
  [visualizationMode |-> "add", showDescriptions |-> FALSE,
   selectedContentProviders |-> {}, selectedContentConsumers |-> {}]

----------------------------------------------------------------------------
(* The panel: PluginDependencyGraphPanel memoizes the graph of the options,*)
(* DependencyGraph memoizes the layout and stores it in nodes in an effect.*)
(* effectPending: the layout memo changed in the last render and its effect*)
(* has not run yet.  replaced is a history variable: the last run of the   *)
(* effect overwrote a non-empty, different set of stored positions.        *)
(* clicks is a history variable: per kind of mediating entity, the entity  *)
(* clicked last and whether its run of consecutive clicks is odd so far.   *)

NoClicks == [point |-> [last |-> Null, odd |-> FALSE],
             component |-> [last |-> Null, odd |-> FALSE]]

\* The history of one kind after a click on id
Clicked(history, id) ==
  IF history.last = id THEN [history EXCEPT !.odd = ~@]
  ELSE [last |-> id, odd |-> TRUE]

TypeOK ==
  /\ pluginData \in ManifestSets \cup SelectData \cup MalformedData \cup InferData \cup CrowdData
                  \cup ProviderColumns \cup OrderData
  /\ series \in RowSets
  /\ options.visualizationMode \in {"add", "expose"}
  /\ options.showDescriptions \in BOOLEAN
  /\ effectPending \in BOOLEAN
  /\ replaced \in BOOLEAN

\* State right after the first render, for given props
Mounted(pd, rows, opts, size) ==
  /\ pluginData = pd
  /\ series = rows
  /\ options = opts
  /\ width = Px(size[1])
  /\ height = Px(size[2])
  /\ data = processPluginDataToGraph(pd, opts)
  /\ nodes = <<>>
  /\ selectedExtensionPoint = Null
  /\ selectedExposedComponent = Null
  /\ effectPending = TRUE
  /\ replaced = FALSE
  /\ clicks = NoClicks

\* The host passes a new options object: both memos are recomputed
OptionsChange(opts) ==
  /\ opts # options
  /\ options' = opts
  /\ data' = processPluginDataToGraph(pluginData, opts)
  /\ effectPending' = TRUE
  /\ UNCHANGED <<pluginData, series, width, height, nodes,
                 selectedExtensionPoint, selectedExposedComponent, replaced, clicks>>

SetProviders(choices) == \E P \in choices :
  OptionsChange([options EXCEPT !.selectedContentProviders = P])

SetConsumers(choices) == \E C \in choices :
  OptionsChange([options EXCEPT !.selectedContentConsumers = C])

SetMode == \E mode \in {"add", "expose"} :
  OptionsChange([options EXCEPT !.visualizationMode = mode])

ToggleDescriptions ==
  OptionsChange([options EXCEPT !.showDescriptions = ~@])

\* The panel is resized
Resize(sizes) == \E size \in sizes :
  /\ <<Px(size[1]), Px(size[2])>> # <<width, height>>
  /\ width' = Px(size[1])
  /\ height' = Px(size[2])
  /\ effectPending' = TRUE
  /\ UNCHANGED <<pluginData, series, options, data, nodes,
                 selectedExtensionPoint, selectedExposedComponent, replaced, clicks>>

\* useEffect(() => setNodes(calculateLayout), [calculateLayout])
LayoutEffect ==
  /\ effectPending
  /\ nodes' = calculateLayout(data, options, width, height)
  /\ effectPending' = FALSE
  /\ replaced' = (nodes # <<>> /\ nodes' # nodes)
  /\ UNCHANGED <<pluginData, series, options, width, height, data,
                 selectedExtensionPoint, selectedExposedComponent, clicks>>

\* Mutation of ToggleSelection: a click always selects
ToggleSelection_Always(selected, id) == id

\* The argument of setSelected...: a click on the selected entity clears
ToggleSelection(selected, id) == IF selected = id THEN Null ELSE id

\* A click on the box of a displayed extension point (Add mode)
ClickExtensionPoint ==
  /\ options.visualizationMode # "expose"
  /\ Len(data.nodes) > 0
  /\ \E epId \in Ids(data.extensionPoints) :
       /\ selectedExtensionPoint' = ToggleSelection(selectedExtensionPoint, epId)
       /\ clicks' = [clicks EXCEPT !.point = Clicked(@, epId)]
  /\ UNCHANGED <<pluginData, series, options, width, height, data, nodes,
                 selectedExposedComponent, effectPending, replaced>>

\* A click on the box of a displayed exposed component (Expose mode)
ClickExposedComponent ==
  /\ options.visualizationMode = "expose"
  /\ Len(data.nodes) > 0
  /\ \E id \in Ids(data.exposedComponents) :
       /\ selectedExposedComponent' = ToggleSelection(selectedExposedComponent, id)
       /\ clicks' = [clicks EXCEPT !.component = Clicked(@, id)]
  /\ UNCHANGED <<pluginData, series, options, width, height, data, nodes,
                 selectedExtensionPoint, effectPending, replaced>>

\* The data source delivers new table data
ReceiveData == \E rows \in RowSets :
  /\ rows # series
  /\ series' = rows
  /\ UNCHANGED <<pluginData, options, width, height, data, nodes,
                 selectedExtensionPoint, selectedExposedComponent, effectPending, replaced, clicks>>

Init ==
  \E pd \in ScenarioData : Mounted(pd, <<>>, getDefaultOptions, <<800, 600>>)

Next ==
  \/ SetProviders(FewSelections)
  \/ SetConsumers(FewSelections)
  \/ SetMode
  \/ ToggleDescriptions
  \/ Resize(FewSizes)
  \/ LayoutEffect
  \/ ReceiveData

Spec == Init /\ [][Next]_vars

\* The filter pipeline alone: every manifest set, every pair of selections
FilterInit ==
  \E pd \in ManifestSets, mode \in {"add", "expose"} :
    Mounted(pd, <<>>, [getDefaultOptions EXCEPT !.visualizationMode = mode], <<800, 600>>)

FilterNext == SetProviders(Selections) \/ SetConsumers(Selections) \/ SetMode

FilterSpec == FilterInit /\ [][FilterNext]_vars

\* The table input alone: every manifest set, every table
TableInit ==
  \E pd \in ManifestSets, rows \in RowSets :
    Mounted(pd, rows, getDefaultOptions, <<800, 600>>)

TableNext == ReceiveData

TableSpec == TableInit /\ [][TableNext]_vars

\* Malformed input: a manifest set with an entry that lacks a block, tables
\* with a row that lacks a value
MalformedInit ==
  \E pd \in MalformedData, rows \in RowSets, mode \in {"add", "expose"} :
    /\ \A i \in 1..Len(pd) : pd[i].id = PluginOrder[i]
    /\ Mounted(pd, rows, [getDefaultOptions EXCEPT !.visualizationMode = mode], <<800, 600>>)

MalformedNext == SetMode \/ SetProviders(FewSelections) \/ ReceiveData

MalformedSpec == MalformedInit /\ [][MalformedNext]_vars

\* The builders alone: every manifest set, with the sets of unresolved
\* targets, in both modes
BuildInit ==
  \E pd \in ManifestSets \cup InferData :
    Mounted(pd, <<>>, getDefaultOptions, <<800, 600>>)

BuildNext == SetMode

BuildSpec == BuildInit /\ [][BuildNext]_vars

\* The layout alone: every manifest set, unfiltered, every canvas size
LayoutInit ==
  \E pd \in ManifestSets, size \in CanvasSizes :
    Mounted(pd, <<>>, getDefaultOptions, size)

LayoutNext == SetMode \/ ToggleDescriptions \/ Resize(CanvasSizes) \/ LayoutEffect

LayoutSpec == LayoutInit /\ [][LayoutNext]_vars

\* Selection by click: the scenario manifests, both modes
SelectInit ==
  \E pd \in SelectData : Mounted(pd, <<>>, getDefaultOptions, <<800, 600>>)

SelectNext ==
  \/ ClickExtensionPoint
  \/ ClickExposedComponent
  \/ SetMode
  \/ SetProviders(FewSelections)
  \/ LayoutEffect

SelectSpec == SelectInit /\ [][SelectNext]_vars

\* The consumer column: every provider with several consumers, Expose mode,
\* every canvas size
CrowdInit ==
  \E pd \in CrowdData, size \in CanvasSizes :
    Mounted(pd, <<>>, [getDefaultOptions EXCEPT !.visualizationMode = "expose"], size)

CrowdNext == ToggleDescriptions \/ Resize(CanvasSizes) \/ LayoutEffect

CrowdSpec == CrowdInit /\ [][CrowdNext]_vars

\* The provider column: many providers of one extension point, both modes,
\* every canvas size
ColumnInit ==
  \E pd \in ProviderColumns, size \in CanvasSizes :
    Mounted(pd, <<>>, getDefaultOptions, size)

ColumnNext == SetMode \/ ToggleDescriptions \/ Resize(CanvasSizes) \/ LayoutEffect

ColumnSpec == ColumnInit /\ [][ColumnNext]_vars

\* The build alone: the same manifests under every key order, both modes
OrderInit ==
  \E pd \in OrderData : Mounted(pd, <<>>, getDefaultOptions, <<800, 600>>)

OrderNext == SetMode

OrderSpec == OrderInit /\ [][OrderNext]_vars

----------------------------------------------------------------------------
(* Properties of the filter                                                *)

IsExpose == options.visualizationMode = "expose"

\* The filter of the current mode, applied to a graph with the current selections
FilterGraph(g) ==
  IF IsExpose
  THEN FilterExposeGraph(g, options.selectedContentProviders, options.selectedContentConsumers)
  ELSE FilterAddGraph(g, options.selectedContentProviders, options.selectedContentConsumers)

\* The graph of the current mode before the filter
BuiltGraph == IF IsExpose THEN BuildExposeGraph(pluginData) ELSE BuildAddGraph(pluginData)

\* C1: filtering the filtered graph again with the same selections returns
\* the identical graph, in Add and in Expose mode
C1_FilterIdempotent == FilterGraph(data) = data

\* C1 restricted to Add mode
C1_FilterIdempotentAdd == ~IsExpose => FilterGraph(data) = data

\* C2: every surviving dependency has a surviving node as source and a
\* surviving extension point (Add) or a surviving node (Expose) as target
C2_EndpointsSurvive ==
  \A i \in 1..Len(data.dependencies) :
    /\ data.dependencies[i].source \in Ids(data.nodes)
    /\ data.dependencies[i].target \in
         (IF IsExpose THEN Ids(data.nodes) ELSE Ids(data.extensionPoints))

C2_EndpointsSurviveAdd == ~IsExpose => C2_EndpointsSurvive

\* C3: every surviving extension point has a provider and every surviving
\* exposed component has a consumer, whatever the selections
C3_NoOrphanEntity ==
  /\ \A i \in 1..Len(data.extensionPoints) : Len(data.extensionPoints[i].providers) > 0
  /\ \A i \in 1..Len(data.exposedComponents) : Len(data.exposedComponents[i].consumers) > 0

NoSelection ==
  options.selectedContentProviders = {} /\ options.selectedContentConsumers = {}

\* The plugins that declare a dependency on component id, in manifest order
DeclaredConsumers(pd, id) ==
  MapSeq(LAMBDA p : p.id,
         FilterSeq(pd, LAMBDA p : \E k \in 1..Len(p.dependencies) :
                                    p.dependencies[k] = id /\ Trim(id) # <<>>))

\* The plugin whose exposure of component id is the one that is kept
ProviderOf(pd, id) ==
  LET exposes(i) == MapHas(pd[i].exposedComponents, id)
      i == CHOOSE j \in 1..Len(pd) : exposes(j) /\ \A k \in (j + 1)..Len(pd) : ~exposes(k)
  IN  pd[i].id

\* One {source: provider, target: consumer, type: depends} per declaration of
\* a dependency on an exposed component, in declaration order
DeclaredDependencies(pd) ==
  FoldLeft(LAMBDA acc, p :
             acc \o MapSeq(LAMBDA id : [source |-> ProviderOf(pd, id), target |-> p.id,
                                        type |-> "depends"],
                           FilterSeq(p.dependencies, LAMBDA id :
                             Trim(id) # <<>> /\ \E i \in 1..Len(pd) :
                                                  MapHas(pd[i].exposedComponents, id))),
           <<>>, pd)

\* C7: Expose mode without selections: the consumers of every returned
\* component are the plugins that declare a dependency on it, deduplicated
\* and in encounter order, and there is one provider -> consumer dependency
\* per declaration
C7_ExposeConsumers ==
  (IsExpose /\ NoSelection) =>
    /\ \A i \in 1..Len(data.exposedComponents) :
         data.exposedComponents[i].consumers =
           DeclaredConsumers(pluginData, data.exposedComponents[i].id)
    /\ MapSeq(LAMBDA dep : [source |-> dep.source, target |-> dep.target, type |-> dep.type],
              data.dependencies) = DeclaredDependencies(pluginData)

\* The dependency half of C7 alone
C7_ExposeDependencies ==
  (IsExpose /\ NoSelection) =>
    MapSeq(LAMBDA dep : [source |-> dep.source, target |-> dep.target, type |-> dep.type],
           data.dependencies) = DeclaredDependencies(pluginData)

\* The content providers of the unfiltered graph of the current mode
GraphProviders ==
  IF IsExpose
  THEN {BuiltGraph.exposedComponents[i].providingPlugin : i \in 1..Len(BuiltGraph.exposedComponents)}
  ELSE {BuiltGraph.dependencies[i].source : i \in 1..Len(BuiltGraph.dependencies)}

IsEmptyGraph(g) ==
  /\ Len(g.nodes) = 0
  /\ Len(g.dependencies) = 0
  /\ Len(g.extensionPoints) = 0
  /\ Len(g.exposedComponents) = 0

\* C8: a provider selection that contains no provider of the graph (and no
\* consumer selection) yields the empty graph, in both modes
C8_NoOverlapIsEmpty ==
  ( /\ options.selectedContentProviders # {}
    /\ options.selectedContentProviders \cap GraphProviders = {}
    /\ options.selectedContentConsumers = {} ) => IsEmptyGraph(data)

C8_NoOverlapIsEmptyAdd == ~IsExpose => C8_NoOverlapIsEmpty

\* C8 for a selected id that is no plugin at all
C8_UnknownProviderIsEmpty ==
  (options.selectedContentProviders = {PZ} /\ options.selectedContentConsumers = {})
    => IsEmptyGraph(data)

\* The mediating entities of the unfiltered graph of the current mode, with
\* their owning plugin and the plugins that feed them
BuiltEntities ==
  IF IsExpose
  THEN MapSeq(LAMBDA comp : [id |-> comp.id, owner |-> comp.providingPlugin,
                             providers |-> {comp.providingPlugin},
                             consumers |-> Range(comp.consumers)],
              BuiltGraph.exposedComponents)
  ELSE MapSeq(LAMBDA ep : [id |-> ep.id, owner |-> ep.definingPlugin,
                           providers |-> Range(ep.providers),
                           consumers |-> {ep.definingPlugin}],
              BuiltGraph.extensionPoints)

\* The entities that pass the provider step
AfterProviderStep ==
  {e \in Range(BuiltEntities) :
     options.selectedContentProviders = {}
       \/ e.providers \cap options.selectedContentProviders # {}}

\* The owning plugins that a dependency which passed the provider step still
\* targets: the consumer set of an empty consumer selection
ReachableOwners ==
  {e.owner : e \in
     {x \in AfterProviderStep :
        \E i \in 1..Len(BuiltGraph.dependencies) :
          LET dep == BuiltGraph.dependencies[i]
          IN  /\ options.selectedContentProviders = {}
                   \/ dep.source \in options.selectedContentProviders
              /\ IF IsExpose THEN dep.source = x.owner ELSE dep.target = x.id}}

ConsumerSet ==
  IF options.selectedContentConsumers = {}
  THEN ReachableOwners ELSE options.selectedContentConsumers

SurvivingEntityIds ==
  IF IsExpose THEN Ids(data.exposedComponents) ELSE Ids(data.extensionPoints)

----------------------------------------------------------------------------
(* Properties of the layout                                                *)

\* The providing plugins whose components list consumerId as a consumer
ProvidersConsumedBy(g, consumerId) ==
  {g.exposedComponents[i].providingPlugin :
     i \in {j \in 1..Len(g.exposedComponents) : Includes(g.exposedComponents[j].consumers, consumerId)}}

\* The position instances of a consumer in a layout
Instances(layout, consumerId) == FilterSeq(layout, LAMBDA n : n.originalId = consumerId)

\* C4: in Expose mode a consumer node listed by components of k distinct
\* providing plugins has exactly k position instances, each with originalId
\* the consumer's id and with the distinct ids "<consumer>-at-<provider>"
C4_ConsumerFanOut ==
  (IsExpose /\ ~effectPending) =>
    \A c \in Ids(data.nodes) :
      LET inst == Instances(nodes, c)
          K == ProvidersConsumedBy(data, c)
      IN  /\ Len(inst) = Cardinality(K)
          /\ Ids(inst) = {c \o <<"-at-">> \o p : p \in K}
          /\ Cardinality(Ids(inst)) = Len(inst)

\* A consumer is placed in the groups of two providers
C4_Witness ==
  /\ IsExpose /\ ~effectPending
  /\ \E c \in Ids(data.nodes) :
       Cardinality(ProvidersConsumedBy(data, c)) >= 2 /\ Len(Instances(nodes, c)) >= 2

contentHeight == calculateContentHeight(data, options, width, height)

\* The displayed graph with one more mediating entity, owned by plugin owner
WithEntity(g, owner) ==
  IF IsExpose
  THEN [g EXCEPT !.exposedComponents =
          Append(@, [id |-> owner \o <<".", "new">>, title |-> NoTitle,
                     providingPlugin |-> owner, consumers |-> <<>>])]
  ELSE [g EXCEPT !.extensionPoints =
          Append(@, [id |-> owner \o <<"/", "new">>, definingPlugin |-> owner,
                     providers |-> <<>>, extensionType |-> "link", title |-> NoTitle])]

\* C5: contentHeight is at least the canvas height, and one more mediating
\* entity in an existing or a new group never decreases it
C5_HeightMonotone ==
  /\ contentHeight >= height
  /\ \A owner \in PluginIds \cup {GrafanaCore} :
       calculateContentHeight(WithEntity(data, owner), options, width, height) >= contentHeight

\* The content is taller than the canvas and grows with one more entity
C5_Witness ==
  /\ contentHeight > height
  /\ \E owner \in PluginIds :
       calculateContentHeight(WithEntity(data, owner), options, width, height) > contentHeight

\* The layout as a function of graph, options and canvas size alone
FreshLayout ==
  IF Len(data.nodes) = 0 THEN <<>>
  ELSE IF IsExpose THEN ExposeLayout(data, options, width, height)
  ELSE AddLayout(data, options, width, height)

----------------------------------------------------------------------------
(* Properties of the table input                                           *)

\* C9: in Add mode without selections the table with the single row
\* {from_app: a, to_app: b, relation: extends, extension_id: b/x1,
\* extension_type: link} yields the nodes a and b, the dependency a -> b/x1
\* and the extension point b/x1 defined by b with providers [a]
C9_TableScenario ==
  (series = <<ScenarioRow>> /\ ~IsExpose /\ NoSelection) =>
    LET g == processTableDataToGraph(series, pluginData, options)
    IN  /\ Len(g.nodes) = 2 /\ Ids(g.nodes) = {PA, PB}
        /\ Len(g.dependencies) = 1
        /\ g.dependencies[1].source = PA /\ g.dependencies[1].target = Ep(PB, 1)
        /\ Len(g.extensionPoints) = 1
        /\ g.extensionPoints[1].id = Ep(PB, 1)
        /\ g.extensionPoints[1].definingPlugin = PB
        /\ g.extensionPoints[1].providers = <<PA>>

----------------------------------------------------------------------------
(* Properties of the provider step                                         *)

\* The provider step in Add mode alone
C11_ProviderFilterAdd ==
  (~IsExpose /\ options.selectedContentProviders # {}) =>
    /\ \A i \in 1..Len(data.dependencies) :
         data.dependencies[i].source \in options.selectedContentProviders
    /\ \A i \in 1..Len(data.extensionPoints) :
         Range(data.extensionPoints[i].providers) \subseteq options.selectedContentProviders

\* C11: with a non-empty provider selection every dependency of the
\* filtered graph has its source, the content provider, in the selection,
\* and every surviving mediating entity keeps only selected providers, in
\* Add mode and in Expose mode
C11_ProviderFilter ==
  options.selectedContentProviders # {} =>
    /\ \A i \in 1..Len(data.dependencies) :
         data.dependencies[i].source \in options.selectedContentProviders
    /\ \A i \in 1..Len(data.extensionPoints) :
         Range(data.extensionPoints[i].providers) \subseteq options.selectedContentProviders
    /\ \A i \in 1..Len(data.exposedComponents) :
         data.exposedComponents[i].providingPlugin \in options.selectedContentProviders

----------------------------------------------------------------------------
(* Properties of the selection                                             *)

\* The selected id that the history of clicks of one kind predicts
Predicted(history) == IF history.odd THEN history.last ELSE Null

\* C12: a click on mediating entity e makes e the selected id of its kind
\* when that id is null or another entity and clears it when it is e; after
\* any sequence of clicks the selected id is null or the entity clicked
\* last, and that entity has been clicked an odd number of times in a row
C12_SelectionToggle ==
  /\ [](/\ selectedExtensionPoint = Predicted(clicks.point)
        /\ selectedExposedComponent = Predicted(clicks.component))
  /\ [][/\ clicks'.point # clicks.point =>
             selectedExtensionPoint' =
               IF selectedExtensionPoint = clicks'.point.last THEN Null
               ELSE clicks'.point.last
        /\ clicks'.component # clicks.component =>
             selectedExposedComponent' =
               IF selectedExposedComponent = clicks'.component.last THEN Null
               ELSE clicks'.component.last]_vars

\* An extension point was selected and then cleared by a click on it, and
\* an exposed component is selected
C12_Witness ==
  /\ selectedExtensionPoint = Null /\ clicks.point.last # Null
  /\ selectedExposedComponent # Null /\ clicks.component.odd

----------------------------------------------------------------------------
(* Properties of the connectors                                            *)

\* The arrows of the current render (none in the empty state)
Connectors ==
  IF Len(data.nodes) = 0 THEN <<>>
  ELSE renderDependencyLinks(data, options, nodes, selectedExtensionPoint,
                             selectedExposedComponent, width, height)

\* The selected id of the displayed kind of mediating entity
Selected == IF IsExpose THEN selectedExposedComponent ELSE selectedExtensionPoint

\* The defining plugin of the extension point a dependency targets
DefiningPluginOf(dep) == FindById(data.extensionPoints, dep.target).definingPlugin

\* The mediating entities of a connector's group
GroupOf(c) ==
  IF c.kind = "add"
  THEN {data.dependencies[i].target :
          i \in {j \in 1..Len(data.dependencies) :
                   /\ MapHas(data.extensionPoints, data.dependencies[j].target)
                   /\ data.dependencies[j].source = c.from
                   /\ DefiningPluginOf(data.dependencies[j]) = c.to}}
  ELSE {c.to}

\* C13: with a selected id s a connector is highlighted iff s is in the
\* connector's group of mediating entities and every other connector is
\* dimmed; with no selection no connector is highlighted or dimmed
C13_Highlighting ==
  \A i \in 1..Len(Connectors) :
    LET c == Connectors[i]
    IN  IF Selected # Null
        THEN (c.highlighted <=> Selected \in GroupOf(c)) /\ (c.dimmed <=> ~c.highlighted)
        ELSE ~c.highlighted /\ ~c.dimmed

\* The second extension point of a group is selected: its connector is
\* highlighted and another connector is dimmed
C13_Witness ==
  /\ ~IsExpose /\ Selected # Null
  /\ \E i, j \in 1..Len(Connectors) :
       /\ Connectors[i].highlighted /\ Connectors[i].ids[1] # Selected
       /\ Connectors[j].dimmed

\* The (source, definingPlugin) pairs of the dependencies whose target is an
\* extension point of the graph and whose source node is positioned
PositionedPairs ==
  {<<data.dependencies[i].source, DefiningPluginOf(data.dependencies[i])>> :
     i \in {j \in 1..Len(data.dependencies) :
              /\ MapHas(data.extensionPoints, data.dependencies[j].target)
              /\ MapHas(nodes, data.dependencies[j].source)}}

\* C14: in Add mode the router emits exactly one connector for each distinct
\* (source, definingPlugin) pair among the dependencies that target an
\* extension point of the graph, however many dependencies the pair has
C14_OneConnectorPerPair ==
  (~IsExpose /\ Len(data.nodes) > 0) =>
    /\ {<<Connectors[i].from, Connectors[i].to>> : i \in 1..Len(Connectors)} = PositionedPairs
    /\ Len(Connectors) = Cardinality(PositionedPairs)

\* One connector stands for three dependencies, two of them with the same
\* source and target
C14_Witness ==
  /\ ~IsExpose /\ Len(data.nodes) > 0
  /\ \E i \in 1..Len(Connectors) :
       /\ Len(Connectors[i].ids) >= 3
       /\ Cardinality(Range(Connectors[i].ids)) = 2

\* The provider -> component connectors of one exposed component
ProviderLines(id) ==
  FilterSeq(Connectors, LAMBDA c : c.kind = "provider" /\ c.to = id)

PlacedInstances(id) ==
  LET comp == MapGet(data.exposedComponents, id)
  IN  {comp.consumers[k] \o <<"-at-">> \o comp.providingPlugin : k \in 1..Len(comp.consumers)}

\* C16: a component -> consumer connector joins component c only to a
\* consumer instance placed in the group of c's providing plugin, the one
\* with id "<consumer>-at-<providingPlugin of c>", whatever the plugin ids
C16_ConsumerConnectors ==
  (IsExpose /\ ~effectPending) =>
    \A i \in 1..Len(Connectors) :
      Connectors[i].kind = "consumer" =>
        Connectors[i].from \in PlacedInstances(Connectors[i].to)

----------------------------------------------------------------------------
(* Properties of the stored selections                                     *)

\* The graph for the current mode and consumer selection, with providers P
GraphWithProviders(P) ==
  processPluginDataToGraph(pluginData, [options EXCEPT !.selectedContentProviders = P])

\* C17: for the same consumer selection the graph filtered with an empty
\* provider selection is the graph filtered with the full list of
\* getAvailableContentProviders(mode)
C17_EmptyMeansAll ==
  GraphWithProviders({}) =
    GraphWithProviders(getAvailableContentProviders(pluginData, options.visualizationMode))

----------------------------------------------------------------------------
(* Properties of malformed input                                           *)

\* The manifests with every lacking block replaced by an empty one
Repaired(pd) == [i \in 1..Len(pd) |-> [pd[i] EXCEPT !.missing = {}]]

\* C18: a manifest entry that lacks a block (extensions, dependencies,
\* targets) or a table row that lacks a value is skipped and the other
\* records are processed: no exception leaves the builder or the filter,
\* and the graph is the one built without the malformed record
C18_MalformedSkipped ==
  /\ ~Threw(data)
  /\ data = processPluginDataToGraph(Repaired(pluginData), options)

\* The blocks that the builder does tolerate: without dependencies.extensions
\* and without targets no exception leaves the builder
C18_GuardedBlocks ==
  (\A i \in 1..Len(pluginData) :
     ~Lacks(pluginData[i], "extensions") /\ ~Lacks(pluginData[i], "dependencies"))
    => C18_MalformedSkipped

----------------------------------------------------------------------------
(* Properties of the Add-mode builder                                      *)

\* The plugins that declare extension point id
Declarers(id) ==
  {pluginData[i].id : i \in {j \in 1..Len(pluginData) :
                               MapHas(pluginData[j].extensionPoints, id)}}

\* The defining plugin inferred from an id that no plugin declares
Inferred(id) ==
  IF StartsWith(id, <<"grafana", "/">>) THEN GrafanaCore
  ELSE IF FirstSegment(id) \in Ids(pluginData) THEN FirstSegment(id)
  ELSE IF FirstSegment(id) \o <<"-app">> \in Ids(pluginData)
  THEN FirstSegment(id) \o <<"-app">>
  ELSE GrafanaCore

\* C19: in Add mode every dependency the builder creates targets an
\* extension point of the built graph; its defining plugin is a plugin that
\* declares the id if there is one and the inferred plugin otherwise, and it
\* is a node of the built graph
C19_TargetsResolved ==
  ~IsExpose =>
    LET g == BuildAddGraph(pluginData)
    IN  \A i \in 1..Len(g.dependencies) :
          LET target == g.dependencies[i].target
          IN  /\ MapHas(g.extensionPoints, target)
              /\ LET definingPlugin == MapGet(g.extensionPoints, target).definingPlugin
                 IN  /\ IF Declarers(target) # {}
                        THEN definingPlugin \in Declarers(target)
                        ELSE definingPlugin = Inferred(target)
                     /\ MapHas(g.nodes, definingPlugin)

\* The defining plugin of extension point id in the built graph
BuiltDefiningPlugin(id) ==
  FindById(BuildAddGraph(pluginData).extensionPoints, id).definingPlugin

\* One build infers a-app from a/x1 and the core plugin from q/x1 and from
\* grafana/x1
C19_Witness ==
  /\ ~IsExpose
  /\ {Ep(PA, 1), Ep(PQ, 1), CoreEp} \subseteq Ids(BuildAddGraph(pluginData).extensionPoints)
  /\ Declarers(Ep(PA, 1)) = {} /\ BuiltDefiningPlugin(Ep(PA, 1)) = PAApp
  /\ Declarers(Ep(PQ, 1)) = {} /\ BuiltDefiningPlugin(Ep(PQ, 1)) = GrafanaCore
  /\ Declarers(CoreEp) = {} /\ BuiltDefiningPlugin(CoreEp) = GrafanaCore
  /\ {PAApp, GrafanaCore} \subseteq Ids(data.nodes)

----------------------------------------------------------------------------
(* Properties of the nodes of the filtered graph                           *)

DependencySources == {data.dependencies[i].source : i \in 1..Len(data.dependencies)}

DependencyTargets == {data.dependencies[i].target : i \in 1..Len(data.dependencies)}

\* The defining plugins of the surviving extension points and the providing
\* plugins of the surviving exposed components
EntityOwners ==
  {data.extensionPoints[i].definingPlugin : i \in 1..Len(data.extensionPoints)}
    \cup {data.exposedComponents[i].providingPlugin : i \in 1..Len(data.exposedComponents)}

\* The owners of the surviving mediating entities that have a provider or a
\* consumer
ConnectedOwners ==
  {data.extensionPoints[i].definingPlugin :
     i \in {j \in 1..Len(data.extensionPoints) : Len(data.extensionPoints[j].providers) > 0}}
    \cup {data.exposedComponents[i].providingPlugin :
            i \in {j \in 1..Len(data.exposedComponents) :
                     Len(data.exposedComponents[j].consumers) > 0}}

----------------------------------------------------------------------------
(* Expose mode: the consumers lists after the filter                       *)

\* The consumers list the builder recorded for the exposed component id
BuiltConsumers(id) == MapGet(BuildExposeGraph(pluginData).exposedComponents, id).consumers

\* C21: Expose mode: the consumers list of every surviving exposed component
\* is its built consumers list restricted to the consuming plugins (targets)
\* of the surviving dependencies, and every id left in it is a surviving node
C21_ConsumersRederived ==
  IsExpose =>
    \A i \in 1..Len(data.exposedComponents) :
      /\ data.exposedComponents[i].consumers =
           FilterSeq(BuiltConsumers(data.exposedComponents[i].id),
                     LAMBDA consumerId : consumerId \in DependencyTargets)
      /\ Range(data.exposedComponents[i].consumers) \subseteq Ids(data.nodes)

\* The second half of C21 alone: no consumers list names a pruned node
C21_NoStaleConsumer ==
  IsExpose =>
    \A i \in 1..Len(data.exposedComponents) :
      Range(data.exposedComponents[i].consumers) \subseteq Ids(data.nodes)

----------------------------------------------------------------------------
(* Properties of the placement                                             *)

\* The mediator position map of the current render
Positions ==
  IF IsExpose THEN getExposedComponentPositions(data, options, width, height)
  ELSE getExtensionPointPositions(data, options, width, height)

\* The stored positions of the provider nodes (a consumer instance carries
\* its originalId)
ProviderNodes == FilterSeq(nodes, LAMBDA n : n.originalId = NoOriginalId)

\* The mediating entities a provider feeds into
FedBy(pluginId) ==
  IF IsExpose
  THEN {data.exposedComponents[i].id :
          i \in {j \in 1..Len(data.exposedComponents) :
                   data.exposedComponents[j].providingPlugin = pluginId}}
  ELSE {data.dependencies[i].target :
          i \in {j \in 1..Len(data.dependencies) :
                   /\ data.dependencies[j].source = pluginId
                   /\ MapHas(data.extensionPoints, data.dependencies[j].target)}}

\* The vertical centres of the groups of the entities a provider feeds into
GroupCentres(pluginId) ==
  {MapGet(Positions, id).groupY + MapGet(Positions, id).groupHeight \div 2 :
     id \in FedBy(pluginId)}

\* C22: in Add and Expose mode the y of every provider node is the vertical
\* centre groupY + groupHeight/2 of a group of mediating entities it feeds
\* into
C22_ProviderAtGroupCentre ==
  ~effectPending =>
    \A n \in 1..Len(ProviderNodes) :
      ProviderNodes[n].y \in GroupCentres(ProviderNodes[n].id)

\* The Expose half of C22 alone
C22_ExposeProviderAtGroupCentre ==
  (IsExpose /\ ~effectPending) =>
    \A n \in 1..Len(ProviderNodes) :
      ProviderNodes[n].y \in GroupCentres(ProviderNodes[n].id)

\* The consumers placed in the group of a providing plugin, in the order of
\* consumersByProvider
GroupConsumers(p) == ConsumersByProvider(data, p)

\* The stored position of the instance of consumer k of the group of p
Instance(p, k) == MapGet(nodes, GroupConsumers(p)[k] \o <<"-at-">> \o p)

\* The band of the group of providing plugin p in the component column
GroupBand(p) == MapGet(Positions, CHOOSE id \in FedBy(p) : TRUE)

ProvidingPlugins ==
  {data.exposedComponents[i].providingPlugin : i \in 1..Len(data.exposedComponents)}

\* C23: Expose mode: the single consumer of a group is at the group's
\* vertical centre; of n >= 2 consumers the one at index i is at startY + i*80
\* when (n-1)*80 <= groupHeight - 120 and at startY + i*(groupHeight-120)/(n-1)
\* otherwise, with startY = groupY + 60; y increases strictly with i and lies
\* in [groupY + 60, groupY + groupHeight - 60]
C23_ConsumerSpacing ==
  (IsExpose /\ ~effectPending) =>
    \A p \in ProvidingPlugins :
      LET n == Len(GroupConsumers(p))
          groupY == GroupBand(p).groupY
          groupHeight == GroupBand(p).groupHeight
          startY == groupY + Px(60)
          availableHeight == groupHeight - Px(120)
      IN  \A k \in 1..n :
            MapHas(nodes, GroupConsumers(p)[k] \o <<"-at-">> \o p) =>
              /\ n = 1 => 2 * Instance(p, k).y = 2 * groupY + groupHeight
              /\ (n >= 2 /\ (n - 1) * Px(80) <= availableHeight) =>
                   Instance(p, k).y = startY + (k - 1) * Px(80)
              /\ (n >= 2 /\ (n - 1) * Px(80) > availableHeight) =>
                   (Instance(p, k).y - startY) * (n - 1) = (k - 1) * availableHeight
              /\ Instance(p, k).y >= groupY + Px(60)
              /\ Instance(p, k).y <= groupY + groupHeight - Px(60)
              /\ \A l \in 1..(k - 1) :
                   MapHas(nodes, GroupConsumers(p)[l] \o <<"-at-">> \o p) =>
                     Instance(p, l).y < Instance(p, k).y

\* One group holds a single consumer at its centre, one holds consumers at
\* the minimum spacing, and one holds three consumers compressed into less
\* than the minimum spacing
C23_Witness ==
  /\ IsExpose /\ ~effectPending
  /\ \E p \in ProvidingPlugins :
       /\ Len(GroupConsumers(p)) = 3
       /\ MapHas(nodes, GroupConsumers(p)[3] \o <<"-at-">> \o p)
       /\ Instance(p, 3).y - Instance(p, 2).y < Px(80)
       /\ Instance(p, 3).y = GroupBand(p).groupY + GroupBand(p).groupHeight - Px(60)
  /\ \E p \in ProvidingPlugins :
       /\ Len(GroupConsumers(p)) = 2
       /\ MapHas(nodes, GroupConsumers(p)[2] \o <<"-at-">> \o p)
       /\ Instance(p, 2).y - Instance(p, 1).y = Px(80)
  /\ \E p \in ProvidingPlugins :
       /\ Len(GroupConsumers(p)) = 1
       /\ MapHas(nodes, GroupConsumers(p)[1] \o <<"-at-">> \o p)
       /\ 2 * Instance(p, 1).y = 2 * GroupBand(p).groupY + GroupBand(p).groupHeight

\* The mediating entities of the displayed mode
Entities == IF IsExpose THEN data.exposedComponents ELSE data.extensionPoints

\* The plugin that owns a mediating entity
OwnerOf(e) == IF IsExpose THEN e.providingPlugin ELSE e.definingPlugin

\* The owning plugins in first-seen order
Owners == Dedup(MapSeq(OwnerOf, Entities))

\* The ids of the entities of the k-th owner, in encounter order
Members(k) == MapSeq(LAMBDA e : e.id, FilterSeq(Entities, LAMBDA e : OwnerOf(e) = Owners[k]))

\* The gap between two groups
GroupGap == IF IsExpose THEN GroupSpacing(height) ELSE Px(40)

\* The top of the first group
FirstGroupY == Margin(width) + (IF IsExpose THEN Px(20) ELSE Px(50))

\* C24: the mediating entities are grouped by owning plugin in first-seen
\* order; the first group starts at the top margin, the top of group k+1 is
\* the top of group k plus its height plus the gap, and the y of every item
\* lies in the band [groupY, groupY + groupHeight] of its own group and
\* increases with the item's index
C24_GroupStacking ==
  /\ Ids(Positions) = Ids(Entities)
  /\ \A k \in 1..Len(Owners) :
       LET first == MapGet(Positions, Members(k)[1])
       IN  /\ k = 1 => first.groupY = FirstGroupY
           /\ k > 1 =>
                LET above == MapGet(Positions, Members(k - 1)[1])
                IN  /\ first.groupY = above.groupY + above.groupHeight + GroupGap
                    /\ first.groupY > above.groupY + above.groupHeight
           /\ \A i \in 1..Len(Members(k)) :
                LET item == MapGet(Positions, Members(k)[i])
                IN  /\ item.groupY = first.groupY
                    /\ item.groupHeight = first.groupHeight
                    /\ item.y >= item.groupY
                    /\ item.y <= item.groupY + item.groupHeight
                    /\ i > 1 => item.y > MapGet(Positions, Members(k)[i - 1]).y

\* Three groups are stacked with descriptions shown, one of them with two
\* items, and the entities of one group are not adjacent in the list
C24_Witness ==
  /\ options.showDescriptions
  /\ Len(Owners) >= 3
  /\ \E k \in 1..Len(Owners) : Len(Members(k)) >= 2
  /\ \E i \in 1..Len(Entities) :
       i + 2 <= Len(Entities) /\ OwnerOf(Entities[i]) = OwnerOf(Entities[i + 2])
         /\ OwnerOf(Entities[i]) # OwnerOf(Entities[i + 1])

\* C25: once the layout is stored, every node box, every mediating-entity
\* box and every group box lies within [0, contentHeight], the height of the
\* rendered SVG, whether or not the dependency types are shown
C25_FitsVertically ==
  (~effectPending /\ Len(data.nodes) > 0) =>
    /\ \A n \in 1..Len(nodes) :
         /\ NodeBoxTop(nodes[n], height) >= 0
         /\ NodeBoxBottom(nodes[n], height) <= contentHeight
    /\ \A i \in 1..Len(Positions) :
         /\ Positions[i].groupY >= 0
         /\ IF IsExpose
            THEN /\ ComponentBoxTop(Positions[i], height) >= 0
                 /\ ComponentBoxBottom(Positions[i], options, height) <= contentHeight
            ELSE /\ Positions[i].groupY + Positions[i].groupHeight <= contentHeight
                 /\ \A showDependencyTypes \in BOOLEAN :
                      /\ ExtensionBoxTop(Positions[i], showDependencyTypes) >= 0
                      /\ ExtensionBoxBottom(Positions[i], options, showDependencyTypes)
                           <= contentHeight

----------------------------------------------------------------------------
(* Properties of the selection over time                                   *)

\* The ids of the mediating entities of the displayed graph and mode
DisplayedEntities ==
  IF Len(data.nodes) = 0 THEN {}
  ELSE IF IsExpose THEN Ids(data.exposedComponents) ELSE Ids(data.extensionPoints)

\* C26: after any sequence of clicks, option changes and mode switches a
\* non-null selected id names a mediating entity of the displayed graph and
\* mode, it highlights a connector of its entity when that entity has
\* connectors, and it never leaves every connector dimmed
C26_SelectionValid ==
  Selected # Null =>
    /\ Selected \in DisplayedEntities
    /\ (\E i \in 1..Len(Connectors) : Selected \in GroupOf(Connectors[i])) =>
         \E i \in 1..Len(Connectors) : Connectors[i].highlighted
    /\ Len(Connectors) > 0 => \E i \in 1..Len(Connectors) : ~Connectors[i].dimmed

\* The part of C26 that holds: right after a click the selected id names a
\* displayed mediating entity
C26_ValidAfterClick ==
  [][clicks' # clicks /\ Selected' # Null => Selected' \in DisplayedEntities']_vars

----------------------------------------------------------------------------
(* Properties of the consumer editor                                       *)

\* The graph of the current data and mode for a consumer selection, with no
\* provider filter
GraphWithConsumers(C) ==
  processPluginDataToGraph(pluginData,
    [options EXCEPT !.selectedContentProviders = {}, !.selectedContentConsumers = C])

\* The consumer set the filter uses for an empty consumer selection, with no
\* provider filter
DefaultConsumers ==
  IF IsExpose
  THEN {BuiltGraph.dependencies[i].source : i \in 1..Len(BuiltGraph.dependencies)}
  ELSE ActiveConsumers(BuiltGraph.dependencies, BuiltGraph.extensionPoints)

\* The list the consumer editor shows as the default selection
Active == getActiveContentConsumers(pluginData, options.visualizationMode)

\* C27: getActiveContentConsumers(mode) returns the consumer set the filter
\* uses for an empty consumer selection, and selecting exactly that list
\* yields the same graph as the empty selection
C27_ActiveIsDefault ==
  /\ ~Threw(Active)
  /\ Active.consumers = DefaultConsumers
  /\ GraphWithConsumers(Active.consumers) = GraphWithConsumers({})

\* The part of C27 that holds: in Add mode every listed plugin is in the
\* filter's default consumer set
C27_ActiveWithinDefault ==
  ~IsExpose => Active.consumers \subseteq DefaultConsumers

----------------------------------------------------------------------------
(* Properties of the render/effect ordering                                *)

\* C28: whenever connectors are drawn, the stored node positions the router
\* reads are the layout of the graph, options and canvas size of that
\* render, for which the mediator positions are computed; once the effect
\* has run the stored positions are the current layout
C28_RouterReadsCurrentLayout ==
  /\ Len(Connectors) > 0 => nodes = FreshLayout
  /\ ~effectPending => nodes = FreshLayout

\* The part of C28 that holds: stored positions differ from the current
\* layout only while the layout effect is pending
C28_StaleOnlyWhilePending ==
  nodes # FreshLayout => effectPending

----------------------------------------------------------------------------
(* Properties of the build under reordering                                *)

\* What the Add-mode build records for each extension point
Recorded(g) ==
  {[id |-> g.extensionPoints[i].id,
    extensionType |-> g.extensionPoints[i].extensionType,
    definingPlugin |-> g.extensionPoints[i].definingPlugin] : i \in 1..Len(g.extensionPoints)}

\* The kinds of content the manifests add to an extension point
KindsAdded(id) ==
  {kind \in {"link", "component", "function"} :
     \E i \in 1..Len(pluginData) :
       Includes(Targets(CASE kind = "link" -> pluginData[i].addedLinks
                          [] kind = "component" -> pluginData[i].addedComponents
                          [] OTHER -> pluginData[i].addedFunctions), id)}

\* C29: the extensionType and definingPlugin the Add-mode build records for
\* an extension point are the same under every order of the manifests, and
\* an extension point that receives only components (only functions) is
\* typed component (function)
C29_OrderIndependent ==
  /\ \A f \in KeyOrders :
       Recorded(BuildAddGraph(Reorder(pluginData, f))) = Recorded(BuildAddGraph(pluginData))
  /\ \A ep \in Recorded(BuildAddGraph(pluginData)) :
       /\ KindsAdded(ep.id) = {"component"} => ep.extensionType = "component"
       /\ KindsAdded(ep.id) = {"function"} => ep.extensionType = "function"

\* The part of C29 that holds: the defining plugin recorded for an extension
\* point is the same under every order of the manifests
C29_DefiningPluginOrderIndependent ==
  \A f \in KeyOrders :
    {[id |-> ep.id, definingPlugin |-> ep.definingPlugin] :
       ep \in Recorded(BuildAddGraph(Reorder(pluginData, f)))}
      = {[id |-> ep.id, definingPlugin |-> ep.definingPlugin] :
           ep \in Recorded(BuildAddGraph(pluginData))}

----------------------------------------------------------------------------
(* Properties of the columns                                               *)

\* The boxes of the node columns and of the mediator column do not overlap
\* horizontally in the stored layout
ColumnsDisjoint ==
  \A n \in 1..Len(nodes) :
    /\ ~IsExpose => NodeBoxLeft(nodes[n], width) >= 0
    /\ \A i \in 1..Len(Positions) :
         IF ~IsExpose
         THEN NodeBoxRight(nodes[n], width) <= ExtensionBoxLeft(Positions[i])
         ELSE IF nodes[n].originalId = NoOriginalId
         THEN NodeBoxRight(nodes[n], width) <= ComponentBoxLeft(Positions[i])
         ELSE ComponentBoxRight(Positions[i], width) <= NodeBoxLeft(nodes[n], width)

\* C30: at every canvas width, in Expose mode the provider boxes end left of
\* the component boxes and the component boxes end left of the consumer
\* boxes; in Add mode the provider boxes start at or right of 0 and end left
\* of the extension-point boxes
C30_ColumnsNeverOverlap ==
  (~effectPending /\ Len(data.nodes) > 0) => ColumnsDisjoint

\* The part of C30 that holds: the columns do not overlap on a canvas that
\* is 800 or 1600 pixels wide
C30_ColumnsDisjointWhenWide ==
  (~effectPending /\ Len(data.nodes) > 0 /\ width >= Px(800)) => ColumnsDisjoint

====
